---- MODULE Spec2Model ----
(***************************************************************************)
(* Model of the LLM benchmarking gateway (the current server, kept in      *)
(* src/unnamed/part_001): POST /api/chat fans one prompt out to the three  *)
(* provider adapters, streams progress and result events as NDJSON and     *)
(* ends with a done marker; GET /api/models lists the providers.           *)
(* The browser client (src/unnamed/part_000) reads that NDJSON body with   *)
(* consumeStream; it is modelled by the variable cl and its own actions.   *)
(*                                                                         *)
(* Execution model: Node's single-threaded event loop.  One action is one  *)
(* macrotask (an I/O completion of one adapter, or the arrival of a        *)
(* request) together with the synchronous code it resumes.  The            *)
(* continuation of the orchestrator's `await Promise.race` is a microtask: *)
(* it is the action raceWinner, and no macrotask runs while it is due.     *)
(*                                                                         *)
(* Text is a sequence of one-character strings over a small alphabet:      *)
(*   "N" line feed, "R" carriage return, "S" space,                        *)
(*   "D" the line prefix `data:`, "V" an `event: ...` line body,           *)
(*   "z" the payload `[DONE]`, "h" a heartbeat payload that is not JSON,   *)
(*   "a" "b" "e" "m" "i" "u" "w" "c" "k" "t" payloads, one JSON event each,*)
(*   "?" U+FFFD.  Bytes are the same except that the event "k" travels as  *)
(*   the two bytes "k1" "k2" (a multi-byte sequence a read may cut).       *)
(* Times are integers in microseconds; a value rounded by toFixed(2) is an *)
(* integer in hundredths of a millisecond.                                 *)
(***************************************************************************)
EXTENDS Integers, Sequences, FiniteSets, TLC

\* ---------------------------------------------------------------- bounds
MaxTime == 16        \* the clock stops advancing here (microseconds)
MaxReads == 2        \* reads that deliver data, per streaming response
MaxText == 4         \* length of the texts estimateVisibleTokens is swept over

\* ------------------------------------------------------- null and helpers
Null == 0 - 1        \* JS null / undefined of a numeric field
NullS == "null"      \* JS null / undefined of a string field

Front(s) == SubSeq(s, 1, Len(s) - 1)
Last(s) == s[Len(s)]

\* ------------------------------------------------------- string functions
WhiteSpace == {"S", "N", "R"}

RECURSIVE TrimStart(_)
TrimStart(s) ==
  IF s # <<>> /\ Head(s) \in WhiteSpace THEN TrimStart(Tail(s)) ELSE s

RECURSIVE TrimEnd(_)
TrimEnd(s) ==
  IF s # <<>> /\ Last(s) \in WhiteSpace THEN TrimEnd(Front(s)) ELSE s

\* String.prototype.trim
Trim(s) == TrimEnd(TrimStart(s))

\* s.split(c) for a one-character separator c
RECURSIVE SplitAt(_, _, _, _)
SplitAt(s, c, p, q) ==
  IF q > Len(s) THEN << SubSeq(s, p, Len(s)) >>
  ELSE IF s[q] = c THEN << SubSeq(s, p, q - 1) >> \o SplitAt(s, c, q + 1, q + 1)
  ELSE SplitAt(s, c, p, q + 1)

SplitOn(s, c) == SplitAt(s, c, 1, 1)

\* length of the match of /\r?\n/ at position q of s, 0 when there is none
LineBreakLen(s, q) ==
  IF q <= Len(s) /\ s[q] = "N" THEN 1
  ELSE IF q + 1 <= Len(s) /\ s[q] = "R" /\ s[q + 1] = "N" THEN 2
  ELSE 0

\* length of the match of /\r?\n\r?\n/ at position q of s, 0 when there is none
FrameBreakLen(s, q) ==
  LET m1 == LineBreakLen(s, q)
      m2 == IF m1 = 0 THEN 0 ELSE LineBreakLen(s, q + m1)
  IN IF m1 > 0 /\ m2 > 0 THEN m1 + m2 ELSE 0

\* buffer.split(/\r?\n\r?\n/u)
RECURSIVE SplitFramesAt(_, _, _)
SplitFramesAt(s, p, q) ==
  IF q > Len(s) THEN << SubSeq(s, p, Len(s)) >>
  ELSE LET m == FrameBreakLen(s, q)
       IN IF m > 0 THEN << SubSeq(s, p, q - 1) >> \o SplitFramesAt(s, q + m, q + m)
          ELSE SplitFramesAt(s, p, q + 1)

SplitFrames(s) == SplitFramesAt(s, 1, 1)

\* remaining.split(/\r?\n/u)
RECURSIVE SplitLinesAt(_, _, _)
SplitLinesAt(s, p, q) ==
  IF q > Len(s) THEN << SubSeq(s, p, Len(s)) >>
  ELSE LET m == LineBreakLen(s, q)
       IN IF m > 0 THEN << SubSeq(s, p, q - 1) >> \o SplitLinesAt(s, q + m, q + m)
          ELSE SplitLinesAt(s, p, q + 1)

SplitLines(s) == SplitLinesAt(s, 1, 1)

\* xs.map((line) => line.trim()).filter(Boolean)
RECURSIVE TrimNonEmpty(_)
TrimNonEmpty(xs) ==
  IF xs = <<>> THEN <<>>
  ELSE LET t == Trim(Head(xs))
       IN (IF t = <<>> THEN <<>> ELSE << t >>) \o TrimNonEmpty(Tail(xs))

\* normalized.split(/\s+/u).length for a trimmed, non-empty text: one more
\* than the number of whitespace runs
RECURSIVE WhiteSpaceRuns(_, _)
WhiteSpaceRuns(s, inRun) ==
  IF s = <<>> THEN 0
  ELSE IF Head(s) \in WhiteSpace
       THEN (IF inRun THEN 0 ELSE 1) + WhiteSpaceRuns(Tail(s), TRUE)
       ELSE WhiteSpaceRuns(Tail(s), FALSE)

\* mutant of estimateVisibleTokens: the characters of the trimmed text
estimateVisibleChars(text) == Len(Trim(text))

estimateVisibleTokens(text) ==
  LET normalized == Trim(text)
  IN IF normalized = <<>> THEN 0 ELSE WhiteSpaceRuns(normalized, FALSE) + 1

\* mutant of decodeStream: decoder.decode(value) without { stream: true }, so
\* that a sequence cut by the end of a read is not completed by the next read
RECURSIVE decodeEachRead(_, _)
decodeEachRead(pend, bytes) ==
  IF bytes = <<>> THEN [chars |-> <<>>, pend |-> FALSE]
  ELSE LET b == Head(bytes)
           rest == decodeEachRead(FALSE, Tail(bytes))
           out == IF b = "k1" /\ Tail(bytes) # <<>> /\ Head(Tail(bytes)) = "k2"
                  THEN << "k" >>
                  ELSE IF b \in {"k1", "k2"} THEN << "?" >> ELSE << b >>
           skip == b = "k1" /\ Tail(bytes) # <<>> /\ Head(Tail(bytes)) = "k2"
       IN [chars |-> out \o (IF skip THEN decodeEachRead(FALSE, Tail(Tail(bytes))).chars
                             ELSE rest.chars),
           pend |-> FALSE]

\* TextDecoder.decode(value, { stream: true }): pend is TRUE while the lead
\* byte "k1" of the two-byte sequence is held back for the next call
RECURSIVE decodeStream(_, _)
decodeStream(pend, bytes) ==
  IF bytes = <<>> THEN [chars |-> <<>>, pend |-> pend]
  ELSE LET b == Head(bytes)
           out == IF b = "k1" THEN (IF pend THEN << "?" >> ELSE <<>>)
                  ELSE IF b = "k2" THEN (IF pend THEN << "k" >> ELSE << "?" >>)
                  ELSE (IF pend THEN << "?", b >> ELSE << b >>)
           rest == decodeStream(b = "k1", Tail(bytes))
       IN [chars |-> out \o rest.chars, pend |-> rest.pend]

\* ------------------------------------------------------ configuration
Providers == {"openai", "gemini", "azure_foundry"}

\* Object.values(MODEL_OPTIONS): the launch order
MODEL_OPTIONS == << "openai", "gemini", "azure_foundry" >>

\* selected.model with the built-in defaults
ModelOf(p) ==
  IF p = "openai" THEN "gpt-5.2"
  ELSE IF p = "gemini" THEN "gemini-3-flash"
  ELSE "gpt-5.2"

\* THINKING_PRESETS (written as text: "0" is the number 0, "1024" is 1024)
THINKING_PRESETS(mode) == IF mode = "on" THEN "1024" ELSE "0"

OPENAI_REASONING_PRESETS(mode) == IF mode = "on" THEN "medium" ELSE "none"

\* mutant of getGeminiThinkingBudget: the budget of off, whatever the mode
getGeminiThinkingBudgetOff(mode) == THINKING_PRESETS("off")

getGeminiThinkingBudget(mode) == THINKING_PRESETS(mode)

\* process.env: TRUE when the variable is set to a non-empty value
EnvKeys ==
  { "OPENAI_API_KEY", "GEMINI_API_KEY", "AZURE_FOUNDRY_ENDPOINT",
    "AZURE_FOUNDRY_API_KEY", "AZURE_FOUNDRY_DEPLOYMENT" }

Envs == [EnvKeys -> BOOLEAN]

\* the message of the error the adapter throws before any request, NullS
\* when its configuration is complete
configError(p, e) ==
  IF p = "openai"
  THEN (IF e["OPENAI_API_KEY"] THEN NullS ELSE "OPENAI_API_KEY is not configured.")
  ELSE IF p = "gemini"
  THEN (IF e["GEMINI_API_KEY"] THEN NullS ELSE "GEMINI_API_KEY is not configured.")
  ELSE IF ~e["AZURE_FOUNDRY_ENDPOINT"] THEN "AZURE_FOUNDRY_ENDPOINT is not configured."
  ELSE IF ~e["AZURE_FOUNDRY_API_KEY"] THEN "AZURE_FOUNDRY_API_KEY is not configured."
  ELSE IF ~e["AZURE_FOUNDRY_DEPLOYMENT"] THEN "AZURE_FOUNDRY_DEPLOYMENT is not configured."
  ELSE NullS

\* the reasoning setting the adapter resolves from thinkingMode
resolvedThinking(p, mode) ==
  IF p = "gemini" THEN getGeminiThinkingBudget(mode)
  ELSE OPENAI_REASONING_PRESETS(mode)

\* the reasoning setting present in the request body (NullS: field absent)
payloadThinking(p, mode) ==
  IF p = "azure_foundry"
  THEN (IF OPENAI_REASONING_PRESETS(mode) # OPENAI_REASONING_PRESETS("off")
        THEN OPENAI_REASONING_PRESETS(mode) ELSE NullS)
  ELSE resolvedThinking(p, mode)

\* ------------------------------------------------------- upstream events
\* Token accounting of one event, Null where the provider sent no field.
\*   openai: input_tokens, output_tokens, output_tokens_details.text_tokens
\*   gemini: promptTokenCount, candidatesTokenCount, thoughtsTokenCount
\*   azure:  prompt_tokens, completion_tokens
NoUsage == [input |-> Null, output |-> Null, text |-> Null, thoughts |-> Null]

EventChars == {"a", "b", "e", "m", "i", "u", "w", "c", "k", "t"}

\* JSON.parse(payload) succeeds exactly on a payload that is one event
isJson(payload) == Len(payload) = 1 /\ payload[1] \in EventChars

\* The fields the adapters read from the parsed event c.  kind is the
\* OpenAI event type (other providers carry no type); hasDelta says that the
\* delta text field is a string; finish is finish_reason / finishReason /
\* item.status / response.status.
\*   a: delta "p"      b: delta " "      e: delta ""      k: delta "q"
\*   t: delta " p  q "
\*   m: metadata only  i: finish reason only
\*   u, w: usage-bearing terminal events with different values
\*   c: a terminal event (response.completed) without usage and status
parseEvent(c) ==
  LET base == [kind |-> "response.created", hasDelta |-> FALSE, delta |-> <<>>,
               hasUsage |-> FALSE, usage |-> NoUsage, finish |-> NullS,
               outputText |-> <<>>]
  IN CASE c = "a" -> [base EXCEPT !.kind = "response.output_text.delta",
                                  !.hasDelta = TRUE, !.delta = << "p" >>]
       [] c = "b" -> [base EXCEPT !.kind = "response.output_text.delta",
                                  !.hasDelta = TRUE, !.delta = << "S" >>]
       [] c = "e" -> [base EXCEPT !.kind = "response.output_text.delta",
                                  !.hasDelta = TRUE]
       [] c = "k" -> [base EXCEPT !.kind = "response.output_text.delta",
                                  !.hasDelta = TRUE, !.delta = << "q" >>]
       [] c = "t" -> [base EXCEPT !.kind = "response.output_text.delta",
                                  !.hasDelta = TRUE,
                                  !.delta = << "S", "p", "S", "S", "q", "S" >>]
       [] c = "i" -> [base EXCEPT !.kind = "response.output_item.done",
                                  !.finish = "length"]
       [] c = "u" -> [base EXCEPT !.kind = "response.completed",
                                  !.hasUsage = TRUE,
                                  !.usage = [input |-> 5, output |-> 7,
                                             text |-> 3, thoughts |-> 4],
                                  !.finish = "stop"]
       [] c = "w" -> [base EXCEPT !.kind = "response.completed",
                                  !.hasUsage = TRUE,
                                  !.usage = [input |-> 6, output |-> 0,
                                             text |-> Null, thoughts |-> Null],
                                  !.finish = "STOP",
                                  !.outputText = << "p", "S", "q" >>]
       [] c = "c" -> [base EXCEPT !.kind = "response.completed"]
       [] OTHER -> base

\* ------------------------------------------------------- output events
\* Number(x.toFixed(2)) of a time x in microseconds, in hundredths of a ms
toFixed2(us) == (us + 5) \div 10

\* The onProgress argument of runProviderRequest and of the adapters: given
\* or omitted (`onProgress?.(...)` then does nothing), and when given the
\* stage of the call in which it throws, NullS when it never does.
Writer == [given |-> TRUE, throwsAt |-> NullS]

Callbacks ==
  { Writer, [given |-> FALSE, throwsAt |-> NullS] }
  \cup { [given |-> TRUE, throwsAt |-> stage] :
           stage \in {"started", "connected", "first_token", "completed"} }

\* onProgress?.(event) throws
throws(cb, stage) == cb.given /\ cb.throwsAt = stage

\* the events onProgress?.(event) passes on
reported(cb, event) == IF cb.given THEN << event >> ELSE <<>>

\* the message of the error a failing callback throws
CallbackMessage == "onProgress failed"

\* mutant of ProgressEvent: the progress payload is written without its
\* envelope
ProgressEventBare(p, stage, elapsedUs) ==
  [provider |-> p, model |-> ModelOf(p), stage |-> stage,
   elapsedMs |-> toFixed2(elapsedUs)]

\* the line writeNdjsonLine writes for a progress callback
ProgressEvent(p, stage, elapsedUs) ==
  [type |-> "progress", provider |-> p, model |-> ModelOf(p), stage |-> stage,
   elapsedMs |-> toFixed2(elapsedUs)]

ResultEvent(outcome) == [type |-> "result", result |-> outcome]

DoneEvent == [type |-> "done"]

\* the value of metrics in an error outcome
NullMetrics == [isNull |-> TRUE]

\* ----------------------------------------------------- stream decoding
\* The decode state of one adapter invocation is a record with the fields
\* text, firstTokenMs, usage, finishReason of the code, and emitted: the
\* progress events passed to onProgress so far in the running step.

\* if (firstTokenMs === null) { firstTokenMs = now - start; onProgress(...) }
\* text += delta
\* A callback that throws here throws inside the try block of the event: the
\* catch swallows it and the rest of the block, text += delta included, is
\* skipped.
firstTokenThrows(s) == s.firstTokenMs = Null /\ throws(s.onProgress, "first_token")

appendDelta(p, s, delta, el) ==
  IF firstTokenThrows(s)
  THEN [s EXCEPT !.firstTokenMs = el]
  ELSE [s EXCEPT !.firstTokenMs = IF @ = Null THEN el ELSE @,
                 !.emitted = IF s.firstTokenMs = Null
                             THEN @ \o reported(s.onProgress,
                                                ProgressEvent(p, "first_token", el))
                             ELSE @,
                 !.text = @ \o delta]

\* callOpenAI: the body of the try block for one parsed event
openaiEvent(s, ev, el) ==
  LET isDelta == ev.kind = "response.output_text.delta" /\ ev.hasDelta
      s1 == IF isDelta THEN appendDelta("openai", s, ev.delta, el) ELSE s
      s2 == IF ev.kind = "response.output_item.done" /\ ev.finish # NullS
            THEN [s1 EXCEPT !.finishReason = ev.finish]
            ELSE s1
  IN IF isDelta /\ firstTokenThrows(s) THEN s1
     ELSE IF ev.kind = "response.completed"
     THEN [s2 EXCEPT !.usage = ev.usage,
                     !.finishReason = IF ev.finish # NullS THEN ev.finish ELSE @,
                     !.text = IF @ = <<>> /\ ev.outputText # <<>>
                              THEN ev.outputText ELSE @]
     ELSE s2

\* mutant of geminiEvent: usage and finish reason are kept once set
geminiEventFirstWins(s, ev, el) ==
  LET chunkText == IF ev.hasDelta THEN ev.delta ELSE <<>>
      s1 == IF chunkText # <<>> THEN appendDelta("gemini", s, chunkText, el) ELSE s
      s2 == IF ev.hasUsage /\ s1.usage = NoUsage THEN [s1 EXCEPT !.usage = ev.usage] ELSE s1
  IN IF chunkText # <<>> /\ firstTokenThrows(s) THEN s1
     ELSE IF ev.finish # NullS /\ s2.finishReason = NullS
     THEN [s2 EXCEPT !.finishReason = ev.finish] ELSE s2

\* callGemini: the body of the try block for one parsed event
geminiEvent(s, ev, el) ==
  LET chunkText == IF ev.hasDelta THEN ev.delta ELSE <<>>
      s1 == IF chunkText # <<>> THEN appendDelta("gemini", s, chunkText, el) ELSE s
      s2 == IF ev.hasUsage THEN [s1 EXCEPT !.usage = ev.usage] ELSE s1
  IN IF chunkText # <<>> /\ firstTokenThrows(s) THEN s1
     ELSE IF ev.finish # NullS THEN [s2 EXCEPT !.finishReason = ev.finish] ELSE s2

\* callAzureFoundry: the body of the try block for one parsed event
azureEvent(s, ev, el) ==
  LET isDelta == ev.hasDelta /\ Len(ev.delta) > 0
      s1 == IF isDelta THEN appendDelta("azure_foundry", s, ev.delta, el) ELSE s
      s2 == IF ev.hasUsage THEN [s1 EXCEPT !.usage = ev.usage] ELSE s1
  IN IF isDelta /\ firstTokenThrows(s) THEN s1
     ELSE IF ev.finish # NullS THEN [s2 EXCEPT !.finishReason = ev.finish] ELSE s2

\* the payloads an adapter skips before JSON.parse
skipsPayload(p, payload) ==
  IF p = "openai" THEN payload = << "z" >>
  ELSE IF p = "gemini" THEN payload = <<>>
  ELSE payload = <<>> \/ payload = << "z" >>

\* mutant of handleLine: a payload that is not JSON discards the text
\* accumulated so far (the catch block around JSON.parse is not harmless)
handleLineAborting(p, s, line, el) ==
  IF Head(line) # "D" THEN s
  ELSE LET payload == Trim(Tail(line))
       IN IF skipsPayload(p, payload) THEN s
          ELSE IF ~isJson(payload) THEN [s EXCEPT !.text = <<>>]
          ELSE IF p = "openai" THEN openaiEvent(s, parseEvent(payload[1]), el)
          ELSE IF p = "gemini" THEN geminiEvent(s, parseEvent(payload[1]), el)
          ELSE azureEvent(s, parseEvent(payload[1]), el)

\* one trimmed, non-empty line of a frame
handleLine(p, s, line, el) ==
  IF Head(line) # "D" THEN s
  ELSE LET payload == Trim(Tail(line))
       IN IF skipsPayload(p, payload) \/ ~isJson(payload) THEN s
          ELSE IF p = "openai" THEN openaiEvent(s, parseEvent(payload[1]), el)
          ELSE IF p = "gemini" THEN geminiEvent(s, parseEvent(payload[1]), el)
          ELSE azureEvent(s, parseEvent(payload[1]), el)

RECURSIVE handleLines(_, _, _, _)
handleLines(p, s, lines, el) ==
  IF lines = <<>> THEN s
  ELSE handleLines(p, handleLine(p, s, Head(lines), el), Tail(lines), el)

\* for (const part of parts) { lines = part.split('\n').map(trim).filter(Boolean) ... }
RECURSIVE handleParts(_, _, _, _)
handleParts(p, s, parts, el) ==
  IF parts = <<>> THEN s
  ELSE handleParts(p,
         handleLines(p, s, TrimNonEmpty(SplitOn(Head(parts), "N")), el),
         Tail(parts), el)

\* callGemini after the read loop: the frame left in the buffer
flushRemaining(p, s, buffer, el) ==
  LET remaining == Trim(buffer)
  IN IF p = "gemini" /\ remaining # <<>>
     THEN handleLines(p, s, TrimNonEmpty(SplitLines(remaining)), el)
     ELSE s

\* ---------------------------------------------------------------- metrics
truthy(n) == n # Null /\ n # 0

\* mutant of orElse: the left operand is never used
orElseRight(x, y) == y

\* x ?? y
orElse(x, y) == IF x # Null THEN x ELSE y

\* tokens && totalMs > 0 ? Number((tokens / (totalMs / 1000)).toFixed(2)) : null
\* (hundredths of a token per second)
tokensPerSecond(tokens, totalUs) ==
  IF truthy(tokens) /\ totalUs > 0
  THEN (2 * tokens * 100000000 + totalUs) \div (2 * totalUs)
  ELSE Null

\* mutant of timingMetrics: ttftMs and postTtftLatencyMs are swapped
timingMetricsSwapped(a) ==
  [ttftMs |-> IF truthy(a.firstChunkMs)
              THEN toFixed2(a.totalMs - a.firstChunkMs) ELSE Null,
   firstTokenMs |-> IF truthy(a.firstTokenMs) THEN toFixed2(a.firstTokenMs) ELSE Null,
   totalLatencyMs |-> toFixed2(a.totalMs),
   postTtftLatencyMs |-> IF truthy(a.firstChunkMs) THEN toFixed2(a.firstChunkMs) ELSE Null,
   generationMs |-> IF truthy(a.firstTokenMs)
                    THEN toFixed2(a.totalMs - a.firstTokenMs) ELSE Null]

\* mutant of timingMetrics: the derived latencies are not taken relative to
\* their milestone
timingMetricsFromStart(a) ==
  [ttftMs |-> IF truthy(a.firstChunkMs) THEN toFixed2(a.firstChunkMs) ELSE Null,
   firstTokenMs |-> IF truthy(a.firstTokenMs) THEN toFixed2(a.firstTokenMs) ELSE Null,
   totalLatencyMs |-> toFixed2(a.totalMs),
   postTtftLatencyMs |-> IF truthy(a.firstChunkMs) THEN toFixed2(a.totalMs) ELSE Null,
   generationMs |-> IF truthy(a.firstTokenMs) THEN toFixed2(a.totalMs) ELSE Null]

\* the timing fields shared by the three adapters' metrics
timingMetrics(a) ==
  [ttftMs |-> IF truthy(a.firstChunkMs) THEN toFixed2(a.firstChunkMs) ELSE Null,
   firstTokenMs |-> IF truthy(a.firstTokenMs) THEN toFixed2(a.firstTokenMs) ELSE Null,
   totalLatencyMs |-> toFixed2(a.totalMs),
   postTtftLatencyMs |-> IF truthy(a.firstChunkMs)
                         THEN toFixed2(a.totalMs - a.firstChunkMs) ELSE Null,
   generationMs |-> IF truthy(a.firstTokenMs)
                    THEN toFixed2(a.totalMs - a.firstTokenMs) ELSE Null]

\* mutant of responseText: no placeholder for an empty text
responseTextBare(text) == Trim(text)

\* text.trim() || '[No text returned]'
responseText(text) ==
  IF Trim(text) = <<>> THEN << "[No text returned]" >> ELSE Trim(text)

\* the value callOpenAI returns
openaiResult(a, mode) ==
  LET estimated == estimateVisibleTokens(a.text)
      outputTextTokens == orElse(a.usage.text, IF estimated > 0 THEN estimated ELSE Null)
      billedOutputTokens == orElse(a.usage.output, outputTextTokens)
      t == timingMetrics(a)
  IN [text |-> responseText(a.text),
      metrics |->
        [ttftMs |-> t.ttftMs, firstTokenMs |-> t.firstTokenMs,
         totalLatencyMs |-> t.totalLatencyMs,
         postTtftLatencyMs |-> t.postTtftLatencyMs,
         generationMs |-> t.generationMs,
         tokensPerSecond |-> tokensPerSecond(billedOutputTokens, a.totalMs),
         inputTokens |-> a.usage.input,
         outputTokens |-> outputTextTokens,
         billedOutputTokens |-> billedOutputTokens,
         finishReason |-> IF a.finishReason # NullS THEN a.finishReason ELSE "completed",
         thinkingBudget |-> OPENAI_REASONING_PRESETS(mode),
         streamingEnabled |-> TRUE]]

\* the value callGemini returns
geminiResult(a, mode) ==
  LET estimated == estimateVisibleTokens(a.text)
      outputTokens == orElse(a.usage.output, IF estimated > 0 THEN estimated ELSE Null)
      thinkingTokens == orElse(a.usage.thoughts, 0)
      billedOutputTokens == IF outputTokens = Null THEN Null
                            ELSE outputTokens + thinkingTokens
      t == timingMetrics(a)
  IN [text |-> responseText(a.text),
      metrics |->
        [ttftMs |-> t.ttftMs, firstTokenMs |-> t.firstTokenMs,
         totalLatencyMs |-> t.totalLatencyMs,
         postTtftLatencyMs |-> t.postTtftLatencyMs,
         generationMs |-> t.generationMs,
         tokensPerSecond |-> tokensPerSecond(outputTokens, a.totalMs),
         inputTokens |-> a.usage.input,
         outputTokens |-> outputTokens,
         billedOutputTokens |-> billedOutputTokens,
         finishReason |-> a.finishReason,
         thinkingBudget |-> getGeminiThinkingBudget(mode),
         streamingEnabled |-> a.streamingEnabled]]

\* the value callAzureFoundry returns
azureResult(a, mode) ==
  LET estimated == estimateVisibleTokens(a.text)
      outputTokens == orElse(a.usage.output, IF estimated > 0 THEN estimated ELSE Null)
      t == timingMetrics(a)
  IN [text |-> responseText(a.text),
      metrics |->
        [ttftMs |-> t.ttftMs, firstTokenMs |-> t.firstTokenMs,
         totalLatencyMs |-> t.totalLatencyMs,
         postTtftLatencyMs |-> t.postTtftLatencyMs,
         generationMs |-> t.generationMs,
         tokensPerSecond |-> tokensPerSecond(outputTokens, a.totalMs),
         inputTokens |-> a.usage.input,
         outputTokens |-> outputTokens,
         billedOutputTokens |-> outputTokens,
         finishReason |-> IF a.finishReason # NullS THEN a.finishReason ELSE "completed",
         thinkingBudget |-> OPENAI_REASONING_PRESETS(mode),
         streamingEnabled |-> TRUE]]

callResult(p, a, mode) ==
  IF p = "openai" THEN openaiResult(a, mode)
  ELSE IF p = "gemini" THEN geminiResult(a, mode)
  ELSE azureResult(a, mode)

\* runProviderRequest: the outcome of a call that returned
successOutcome(p, result) ==
  [provider |-> p, model |-> ModelOf(p), response |-> result.text,
   metrics |-> result.metrics, error |-> FALSE]

\* mutant of errorOutcome: the outcome of a failed call is not flagged
errorOutcomeUnflagged(p, message) ==
  [provider |-> p, model |-> ModelOf(p), response |-> << "Fehler: " >> \o message,
   metrics |-> NullMetrics, error |-> FALSE]

\* runProviderRequest: the outcome of a call that threw an Error with message
errorOutcome(p, message) ==
  [provider |-> p, model |-> ModelOf(p), response |-> << "Fehler: " >> \o message,
   metrics |-> NullMetrics, error |-> TRUE]

\* ------------------------------------------------------------------ state
VARIABLES
  env,       \* process.env: which configuration variables are set
  now,       \* performance.now(), microseconds
  gw,        \* per request: the state of the POST /api/chat handler
  ad,        \* per request and provider: the locals of the adapter call
  pending,   \* per request: streamChatResults' pending array (launch order)
  raceQ,     \* per request: settled tasks whose race callback is queued
  settled,   \* per request: the providers in the order their tasks settled
  out,       \* per request: the lines written to the response, in order
  cl         \* the browser client: the locals of its consumeStream call

vars == << env, now, gw, ad, pending, raceQ, settled, out, cl >>

ReqIds == {1, 2}

NullOutcome == [provider |-> NullS]

\* the locals of an adapter call before it is launched; received is the
\* upstream's side of the connection: the bytes of the response body the
\* reads have delivered so far (a history kept only by the specifications
\* whose properties compare a decode with the stream it came from), requests
\* the requests sent upstream and fallback the body the non-streaming request
\* was answered with
NewAdapter ==
  [pc |-> "idle", start |-> 0, status |-> 0, pend |-> FALSE, buffer |-> <<>>,
   text |-> <<>>, firstChunkMs |-> Null, firstTokenMs |-> Null, totalMs |-> Null,
   usage |-> NoUsage, finishReason |-> NullS, streamingEnabled |-> TRUE,
   reads |-> 0, received |-> <<>>, requests |-> <<>>, fallback |-> <<>>,
   onProgress |-> Writer, outcome |-> NullOutcome]

\* request bodies: the prompt by its type and truthiness, the thinkingMode
Prompts ==
  { [type |-> "string", truthy |-> TRUE], [type |-> "string", truthy |-> FALSE],
    [type |-> "undefined", truthy |-> FALSE], [type |-> "number", truthy |-> TRUE] }

Modes == {"off", "on", "high", NullS}

\* what `await readJsonBody(req)` completes with: the parsed body (error is
\* NullS; an empty body parses as {}), or a rejection with the message error
Bodies ==
  { [error |-> NullS, prompt |-> prompt, thinkingMode |-> mode] :
      prompt \in Prompts, mode \in Modes }
  \cup
  { [error |-> message, prompt |-> [type |-> "undefined", truthy |-> FALSE],
     thinkingMode |-> NullS] : message \in {"Invalid JSON body", "Payload too large"} }

\* a request before its handler has run: request is the body read, sent the
\* JSON bodies the response was ended with
NewGateway ==
  [state |-> "idle", status |-> 0, thinkingMode |-> NullS,
   request |-> [error |-> NullS, prompt |-> [type |-> "undefined", truthy |-> FALSE],
                thinkingMode |-> NullS],
   sent |-> <<>>]

\* the clock is monotonic: between two readings it advances by one of the
\* steps of T, and no more once it has reached MaxTime
Steps(T, t) ==
  IF \E d \in T : t + d <= MaxTime THEN {d \in T : t + d <= MaxTime} ELSE {0}

\* the client before consumeStream is called. body and rest are the
\* gateway's side of the connection: the bytes of the response body, and
\* those not yet read; cut is TRUE once a read has ended inside a
\* character; lines is the history of the calls of processStreamLine; cards
\* is the history of the updates made to the provider cards
NewClient ==
  [pc |-> "idle", body |-> <<>>, rest |-> <<>>, cut |-> FALSE, pend |-> FALSE,
   buffer |-> <<>>, lines |-> <<>>, cards |-> <<>>]

InitFor(E) ==
  /\ env \in E
  /\ now = 0
  /\ gw = [r \in ReqIds |-> NewGateway]
  /\ ad = [r \in ReqIds |-> [p \in Providers |-> NewAdapter]]
  /\ pending = [r \in ReqIds |-> <<>>]
  /\ raceQ = [r \in ReqIds |-> <<>>]
  /\ settled = [r \in ReqIds |-> <<>>]
  /\ out = [r \in ReqIds |-> <<>>]
  /\ cl = NewClient

\* no continuation of an orchestrator is due: the next macrotask may run
NoMicrotask == \A r \in ReqIds : raceQ[r] = <<>>

\* ------------------------------------------------------------ orchestrator
\* mutant of launchAdapter: the request is issued without the configuration
\* check
launchAdapterUnchecked(p, mode, t) ==
  [NewAdapter EXCEPT !.pc = "fetch", !.start = t,
                     !.requests = << [kind |-> "stream",
                                      thinking |-> payloadThinking(p, mode)] >>]

\* callX up to its first await: the configuration check, then the request
launchAdapter(p, mode, t) ==
  IF configError(p, env) # NullS
  THEN [NewAdapter EXCEPT !.pc = "settled",
                          !.outcome = errorOutcome(p, << configError(p, env) >>)]
  ELSE [NewAdapter EXCEPT !.pc = "fetch", !.start = t,
                          !.requests = << [kind |-> "stream",
                                           thinking |-> payloadThinking(p, mode)] >>]

\* runProviderRequest up to its first await, for every entry of MODEL_OPTIONS
startedEvents == [i \in 1..Len(MODEL_OPTIONS) |-> ProgressEvent(MODEL_OPTIONS[i], "started", 0)]

\* runProviderRequest calls onProgress before its try block: a callback that
\* throws there rejects every task, the first Promise.race rejects with it,
\* and so does streamChatResults, after the head and before any line; the
\* handler returns that promise without awaiting it, so its catch does not
\* run and the response is left open.
startedThrows(r, body, mode) ==
  /\ gw' = [gw EXCEPT ![r] = [@ EXCEPT !.state = "failed", !.status = 200,
                                       !.thinkingMode = mode, !.request = body]]
  /\ UNCHANGED << ad, pending, raceQ, settled, out >>

\* mutant of streamChatResults: the response written to is a variable shared
\* by the requests, holding the response of the first one
streamChatResultsSharedResponse(r, body, mode, cb, t) ==
  LET failed(p) == launchAdapter(p, mode, t).pc = "settled"
  IN /\ gw' = [gw EXCEPT ![r] = [@ EXCEPT !.state = "streaming", !.status = 200,
                                          !.thinkingMode = mode, !.request = body]]
     /\ ad' = [ad EXCEPT ![r] = [p \in Providers |->
                                  [launchAdapter(p, mode, t) EXCEPT !.onProgress = cb]]]
     /\ out' = [out EXCEPT ![1] = @ \o startedEvents]
     /\ pending' = [pending EXCEPT ![r] = MODEL_OPTIONS]
     /\ raceQ' = [raceQ EXCEPT ![r] = SelectSeq(MODEL_OPTIONS, failed)]
     /\ settled' = [settled EXCEPT ![r] = SelectSeq(MODEL_OPTIONS, failed)]

\* streamChatResults up to its first await: the head, the launch of every
\* adapter, the first Promise.race.  The adapters that threw at their
\* configuration check settle in the same turn, in launch order.
streamChatResults(r, body, mode, cb, t) ==
  LET failed(p) == launchAdapter(p, mode, t).pc = "settled"
  IN IF throws(cb, "started") THEN startedThrows(r, body, mode)
     ELSE
     /\ gw' = [gw EXCEPT ![r] = [@ EXCEPT !.state = "streaming", !.status = 200,
                                          !.thinkingMode = mode, !.request = body]]
     /\ ad' = [ad EXCEPT ![r] = [p \in Providers |->
                                  [launchAdapter(p, mode, t) EXCEPT !.onProgress = cb]]]
     /\ out' = [out EXCEPT ![r] = IF cb.given THEN startedEvents ELSE <<>>]
     /\ pending' = [pending EXCEPT ![r] = MODEL_OPTIONS]
     /\ raceQ' = [raceQ EXCEPT ![r] = SelectSeq(MODEL_OPTIONS, failed)]
     /\ settled' = [settled EXCEPT ![r] = SelectSeq(MODEL_OPTIONS, failed)]

\* sendJson: the head with statusCode, and the response ended with payload
sendJson(r, body, state, statusCode, payload) ==
  /\ gw' = [gw EXCEPT ![r] = [@ EXCEPT !.state = state, !.status = statusCode,
                                       !.request = body, !.sent = << payload >>]]
  /\ UNCHANGED << ad, pending, raceQ, settled, out >>

\* mutant of PostChat: thinkingMode is not validated
PostChatAnyMode(r, body, cb, d) ==
  /\ NoMicrotask
  /\ gw[r].state = "idle"
  /\ now' = now + d
  /\ UNCHANGED env
  /\ IF body.error # NullS
     THEN sendJson(r, body, "rejected", 500, [error |-> body.error])
     ELSE IF ~body.prompt.truthy \/ body.prompt.type # "string"
     THEN sendJson(r, body, "rejected", 400, [error |-> "prompt is required."])
     ELSE streamChatResults(r, body, body.thinkingMode, cb, now + d)

\* the POST /api/chat handler, from the completion of readJsonBody
PostChat(r, body, cb, d) ==
  /\ NoMicrotask
  /\ gw[r].state = "idle"
  /\ now' = now + d
  /\ UNCHANGED env
  /\ IF body.error # NullS
     THEN sendJson(r, body, "rejected", 500, [error |-> body.error])
     ELSE IF ~body.prompt.truthy \/ body.prompt.type # "string"
     THEN sendJson(r, body, "rejected", 400, [error |-> "prompt is required."])
     ELSE IF body.thinkingMode \notin {"off", "on"}
     THEN sendJson(r, body, "rejected", 400,
                   [error |-> "thinkingMode must be \"off\" or \"on\"."])
     ELSE streamChatResults(r, body, body.thinkingMode, cb, now + d)

\* meta.provider.toUpperCase()
toUpperCase(p) ==
  IF p = "openai" THEN "OPENAI"
  ELSE IF p = "gemini" THEN "GEMINI"
  ELSE "AZURE_FOUNDRY"

\* Object.entries(MODEL_OPTIONS).map(([id, meta]) => ({ id, label }))
modelList ==
  [i \in 1..Len(MODEL_OPTIONS) |->
     [id |-> MODEL_OPTIONS[i],
      label |-> << toUpperCase(MODEL_OPTIONS[i]), " · ", ModelOf(MODEL_OPTIONS[i]) >>]]

\* the GET /api/models handler
GetModels(r, d) ==
  /\ NoMicrotask
  /\ gw[r].state = "idle"
  /\ now' = now + d
  /\ UNCHANGED env
  /\ sendJson(r, gw[r].request, "listed", 200, modelList)

\* mutant of RemoveAt: pending.shift(), whatever the winner's index
RemoveFirst(s, i) == Tail(s)

\* pending.splice(index, 1)
RemoveAt(s, i) == SubSeq(s, 1, i - 1) \o SubSeq(s, i + 1, Len(s))

IndexOf(s, x) == CHOOSE i \in 1..Len(s) : s[i] = x

\* mutant of raceWinner: `for (const task of pending) write(await task)`, the
\* results awaited and written in launch order
RECURSIVE SettledPrefix(_, _)
SettledPrefix(r, tasks) ==
  IF tasks # <<>> /\ ad[r][Head(tasks)].pc = "settled"
  THEN << Head(tasks) >> \o SettledPrefix(r, Tail(tasks))
  ELSE <<>>

raceWinnerInLaunchOrder(r) ==
  /\ gw[r].state = "streaming"
  /\ raceQ[r] # <<>>
  /\ LET ready == SettledPrefix(r, pending[r])
         rest == SubSeq(pending[r], Len(ready) + 1, Len(pending[r]))
         lines == [i \in 1..Len(ready) |-> ResultEvent(ad[r][ready[i]].outcome)]
     IN /\ pending' = [pending EXCEPT ![r] = rest]
        /\ raceQ' = [raceQ EXCEPT ![r] = <<>>]
        /\ IF rest = <<>>
           THEN /\ out' = [out EXCEPT ![r] = @ \o lines \o << DoneEvent >>]
                /\ gw' = [gw EXCEPT ![r].state = "ended"]
           ELSE /\ out' = [out EXCEPT ![r] = @ \o lines]
                /\ UNCHANGED gw
  /\ UNCHANGED << env, now, ad, settled >>

\* mutant of raceWinner: the done line is written before the last result
raceWinnerDoneFirst(r) ==
  /\ gw[r].state = "streaming"
  /\ raceQ[r] # <<>>
  /\ LET winner == Head(raceQ[r])
         rest == RemoveAt(pending[r], IndexOf(pending[r], winner))
         isSettled(p) == ad[r][p].pc = "settled"
         line == ResultEvent(ad[r][winner].outcome)
     IN /\ pending' = [pending EXCEPT ![r] = rest]
        /\ raceQ' = [raceQ EXCEPT ![r] = SelectSeq(rest, isSettled)]
        /\ IF rest = <<>>
           THEN /\ out' = [out EXCEPT ![r] = @ \o << DoneEvent, line >>]
                /\ gw' = [gw EXCEPT ![r].state = "ended"]
           ELSE /\ out' = [out EXCEPT ![r] = Append(@, line)]
                /\ UNCHANGED gw
  /\ UNCHANGED << env, now, ad, settled >>

\* mutant of raceWinner: the response is ended as soon as no settled task is
\* waiting for its result to be written
raceWinnerEndsEarly(r) ==
  /\ gw[r].state = "streaming"
  /\ raceQ[r] # <<>>
  /\ LET winner == Head(raceQ[r])
         rest == RemoveAt(pending[r], IndexOf(pending[r], winner))
         isSettled(p) == ad[r][p].pc = "settled"
         line == ResultEvent(ad[r][winner].outcome)
     IN /\ pending' = [pending EXCEPT ![r] = rest]
        /\ raceQ' = [raceQ EXCEPT ![r] = SelectSeq(rest, isSettled)]
        /\ IF SelectSeq(rest, isSettled) = <<>>
           THEN /\ out' = [out EXCEPT ![r] = @ \o << line, DoneEvent >>]
                /\ gw' = [gw EXCEPT ![r].state = "ended"]
           ELSE /\ out' = [out EXCEPT ![r] = Append(@, line)]
                /\ UNCHANGED gw
  /\ UNCHANGED << env, now, ad, settled >>

\* mutant of raceWinner: the next race is set up only with the tasks that
\* settle after it, so a task that settled while another result was being
\* awaited is never seen
raceWinnerForgetful(r) ==
  /\ gw[r].state = "streaming"
  /\ raceQ[r] # <<>>
  /\ LET winner == Head(raceQ[r])
         rest == RemoveAt(pending[r], IndexOf(pending[r], winner))
         line == ResultEvent(ad[r][winner].outcome)
     IN /\ pending' = [pending EXCEPT ![r] = rest]
        /\ raceQ' = [raceQ EXCEPT ![r] = <<>>]
        /\ IF rest = <<>>
           THEN /\ out' = [out EXCEPT ![r] = @ \o << line, DoneEvent >>]
                /\ gw' = [gw EXCEPT ![r].state = "ended"]
           ELSE /\ out' = [out EXCEPT ![r] = Append(@, line)]
                /\ UNCHANGED gw
  /\ UNCHANGED << env, now, ad, settled >>

\* the continuation of `await Promise.race(...)`: the winner is the task whose
\* callback ran first; its result is written, and either the next race is
\* set up (callbacks of tasks that are already settled queue in index
\* order) or the done line is written and the response ended
raceWinner(r) ==
  /\ gw[r].state = "streaming"
  /\ raceQ[r] # <<>>
  /\ LET winner == Head(raceQ[r])
         rest == RemoveAt(pending[r], IndexOf(pending[r], winner))
         isSettled(p) == ad[r][p].pc = "settled"
         line == ResultEvent(ad[r][winner].outcome)
     IN /\ pending' = [pending EXCEPT ![r] = rest]
        /\ raceQ' = [raceQ EXCEPT ![r] = SelectSeq(rest, isSettled)]
        /\ IF rest = <<>>
           THEN /\ out' = [out EXCEPT ![r] = @ \o << line, DoneEvent >>]
                /\ gw' = [gw EXCEPT ![r].state = "ended"]
           ELSE /\ out' = [out EXCEPT ![r] = Append(@, line)]
                /\ UNCHANGED gw
  /\ UNCHANGED << env, now, ad, settled >>

\* ---------------------------------------------------------------- adapters
\* mutant of settle: runProviderRequest without its try/catch, so that a
\* failed call rejects the task instead of resolving it with an error outcome
settleRejecting(r, p, a, outcome) ==
  /\ ad' = [ad EXCEPT ![r][p] = [a EXCEPT !.pc = "settled", !.outcome = outcome]]
  /\ raceQ' = [raceQ EXCEPT ![r] = IF outcome.error THEN @ ELSE Append(@, p)]
  /\ settled' = [settled EXCEPT ![r] = IF outcome.error THEN @ ELSE Append(@, p)]

\* the promise of runProviderRequest resolves with outcome
settle(r, p, a, outcome) ==
  /\ ad' = [ad EXCEPT ![r][p] = [a EXCEPT !.pc = "settled", !.outcome = outcome]]
  /\ raceQ' = [raceQ EXCEPT ![r] = Append(@, p)]
  /\ settled' = [settled EXCEPT ![r] = Append(@, p)]

\* the adapter stays suspended at its next await
suspend(r, p, a) ==
  /\ ad' = [ad EXCEPT ![r][p] = a]
  /\ UNCHANGED << raceQ, settled >>

requestFailed(p) ==
  IF p = "openai" THEN "OpenAI request failed: "
  ELSE IF p = "gemini" THEN "Gemini request failed: "
  ELSE "Azure Foundry request failed: "

\* what `await fetch(...)` can complete with: a response (ok, with or without
\* a body, or a non-success status) or a rejection
FetchResults ==
  { [rejects |-> FALSE, ok |-> TRUE, body |-> TRUE, status |-> 200],
    [rejects |-> FALSE, ok |-> TRUE, body |-> FALSE, status |-> 204],
    [rejects |-> FALSE, ok |-> FALSE, body |-> TRUE, status |-> 500],
    [rejects |-> TRUE, ok |-> FALSE, body |-> FALSE, status |-> 0] }

\* mutant of responseFailed: the status is not looked at
responseFailedBodyOnly(res) == ~res.body

\* !response.ok || !response.body
responseFailed(res) == ~res.ok \/ ~res.body

\* `await fetch(...)` of the streaming request completes
fetchResponse(r, p, res, d) ==
  LET a == ad[r][p]
  IN /\ NoMicrotask
     /\ a.pc = "fetch"
     /\ now' = now + d
     /\ UNCHANGED << env, gw, pending, out >>
     /\ IF res.rejects
        THEN settle(r, p, a, errorOutcome(p, << "fetch failed" >>))
        ELSE IF responseFailed(res)
        THEN suspend(r, p, [a EXCEPT !.pc = "errorText", !.status = res.status])
        ELSE suspend(r, p, [a EXCEPT !.pc = "reading", !.status = res.status])

\* the body text of a failed response
errorBody(status) == IF status = 204 THEN "" ELSE "upstream error body"

\* the message of the error thrown for a failed response
requestFailedMessage(p, status) ==
  << requestFailed(p), ToString(status), " ", errorBody(status) >>

\* `await response.text()` of a failed response completes; the adapter throws
errorText(r, p, res, d) ==
  LET a == ad[r][p]
  IN /\ NoMicrotask
     /\ a.pc = "errorText"
     /\ now' = now + d
     /\ UNCHANGED << env, gw, pending, out >>
     /\ IF res = "reject"
        THEN settle(r, p, a, errorOutcome(p, << "terminated" >>))
        ELSE settle(r, p, a, errorOutcome(p, requestFailedMessage(p, a.status)))

decodeState(a, emitted) ==
  [text |-> a.text, firstTokenMs |-> a.firstTokenMs, usage |-> a.usage,
   finishReason |-> a.finishReason, onProgress |-> a.onProgress,
   emitted |-> emitted]

withDecoded(a, s) ==
  [a EXCEPT !.text = s.text, !.firstTokenMs = s.firstTokenMs, !.usage = s.usage,
            !.finishReason = s.finishReason]

\* mutant of connectedProgress: connected is reported on every read
connectedProgressEveryRead(p, a, el) == << ProgressEvent(p, "connected", el) >>

\* mutant of connectedProgress: the test of firstChunkMs is inverted
connectedProgressInverted(p, a, el) ==
  IF a.firstChunkMs # Null THEN << ProgressEvent(p, "connected", el) >> ELSE <<>>

\* if (firstChunkMs === null) { firstChunkMs = now - start; onProgress(connected) }
connectedProgress(p, a, el) ==
  IF a.firstChunkMs = Null
  THEN reported(a.onProgress, ProgressEvent(p, "connected", el))
  ELSE <<>>

\* mutant of completedProgress: completed is reported only when text arrived
completedProgressIfText(p, a, el) ==
  IF a.text # <<>> THEN << ProgressEvent(p, "completed", el) >> ELSE <<>>

\* after the read loop: onProgress(completed), unconditionally
completedProgress(p, a, el) ==
  reported(a.onProgress, ProgressEvent(p, "completed", el))

\* `await reader.read()` delivers the bytes of one chunk at now + d1; the
\* frames it completes are decoded, a first token is stamped d2 later
readData(r, p, bytes, keep, d1, d2) ==
  LET a == ad[r][p]
      t1 == now + d1
      t2 == t1 + d2
      first == a.firstChunkMs = Null
      connected == connectedProgress(p, a, t1 - a.start)
      dec == decodeStream(a.pend, bytes)
      parts == SplitFrames(a.buffer \o dec.chars)
      s == handleParts(p, decodeState(a, connected), Front(parts), t2 - a.start)
  IN /\ NoMicrotask
     /\ a.pc = "reading"
     /\ a.reads < MaxReads
     /\ UNCHANGED << env, gw, pending >>
     /\ IF first /\ throws(a.onProgress, "connected")
        THEN /\ d2 = 0
             /\ now' = t1
             /\ UNCHANGED out
             /\ settle(r, p, [a EXCEPT !.firstChunkMs = t1 - a.start,
                                       !.reads = @ + 1,
                                       !.received = IF keep THEN @ \o bytes ELSE @],
                       errorOutcome(p, << CallbackMessage >>))
        ELSE /\ s.firstTokenMs = a.firstTokenMs => d2 = 0
             /\ now' = t2
             /\ out' = [out EXCEPT ![r] = @ \o s.emitted]
             /\ suspend(r, p, [withDecoded(a, s) EXCEPT
                                 !.firstChunkMs = IF first THEN t1 - a.start ELSE @,
                                 !.pend = dec.pend, !.buffer = Last(parts),
                                 !.reads = @ + 1,
                                 !.received = IF keep THEN @ \o bytes ELSE @])

\* `await reader.read()` reports the end of the stream
readDone(r, p, d) ==
  LET a == ad[r][p]
      el == now + d - a.start
      s == flushRemaining(p, decodeState(a, <<>>), a.buffer, el)
      a1 == [withDecoded(a, s) EXCEPT !.totalMs = el]
      emitted == IF throws(a.onProgress, "completed") THEN s.emitted
                 ELSE s.emitted \o completedProgress(p, a1, el)
  IN /\ NoMicrotask
     /\ a.pc = "reading"
     /\ now' = now + d
     /\ out' = [out EXCEPT ![r] = @ \o emitted]
     /\ UNCHANGED << env, gw, pending >>
     /\ IF throws(a.onProgress, "completed")
        THEN settle(r, p, a1, errorOutcome(p, << CallbackMessage >>))
        ELSE IF p = "gemini" /\ Trim(a1.text) = <<>>
        THEN suspend(r, p, [a1 EXCEPT !.pc = "fallbackFetch",
                                      !.requests = Append(@, [kind |-> "fallback",
                                                              thinking |-> a.requests[1].thinking])])
        ELSE settle(r, p, a1, successOutcome(p, callResult(p, a1, gw[r].thinkingMode)))

\* `await reader.read()` rejects
readError(r, p, d) ==
  LET a == ad[r][p]
  IN /\ NoMicrotask
     /\ a.pc = "reading"
     /\ now' = now + d
     /\ UNCHANGED << env, gw, pending, out >>
     /\ settle(r, p, a, errorOutcome(p, << "terminated" >>))

\* mutant of fallbackResponse: a fallback request that failed is issued again
fallbackResponseRetrying(r, p, res, d) ==
  LET a == ad[r][p]
  IN /\ NoMicrotask
     /\ a.pc = "fallbackFetch"
     /\ now' = now + d
     /\ UNCHANGED << env, gw, pending, out >>
     /\ IF (res.rejects \/ ~res.ok) /\ Len(a.requests) < 3
        THEN suspend(r, p, [a EXCEPT !.requests = Append(@, a.requests[2])])
        ELSE IF res.rejects
        THEN settle(r, p, a, errorOutcome(p, << "fetch failed" >>))
        ELSE IF res.ok
        THEN suspend(r, p, [a EXCEPT !.pc = "fallbackJson"])
        ELSE settle(r, p, a, successOutcome(p, callResult(p, a, gw[r].thinkingMode)))

\* callGeminiNonStreaming: `await fetch(...)` completes
fallbackResponse(r, p, res, d) ==
  LET a == ad[r][p]
  IN /\ NoMicrotask
     /\ a.pc = "fallbackFetch"
     /\ now' = now + d
     /\ UNCHANGED << env, gw, pending, out >>
     /\ IF res.rejects
        THEN settle(r, p, a, errorOutcome(p, << "fetch failed" >>))
        ELSE IF res.ok
        THEN suspend(r, p, [a EXCEPT !.pc = "fallbackJson"])
        ELSE settle(r, p, a, successOutcome(p, callResult(p, a, gw[r].thinkingMode)))

\* bodies of the non-streaming response: the joined parts text before trim,
\* usageMetadata, finishReason
FallbackBodies ==
  { [raw |-> << "p", "S", "q", "N" >>, hasUsage |-> TRUE,
     usage |-> [input |-> 5, output |-> 2, text |-> Null, thoughts |-> 4],
     finish |-> "STOP"],
    [raw |-> << "p" >>, hasUsage |-> FALSE, usage |-> NoUsage, finish |-> NullS],
    [raw |-> << "S" >>, hasUsage |-> TRUE,
     usage |-> [input |-> 5, output |-> 0, text |-> Null, thoughts |-> 4],
     finish |-> "MAX_TOKENS"] }

\* mutant of adoptFallback: usage and finish reason of the fallback are taken
\* also when its text is empty
adoptFallbackUsage(a, body) ==
  LET text == Trim(body.raw)
      a1 == [a EXCEPT !.usage = IF body.hasUsage THEN body.usage ELSE @,
                      !.finishReason = IF body.finish # NullS THEN body.finish ELSE @]
  IN IF text # <<>>
     THEN [a1 EXCEPT !.text = text, !.streamingEnabled = FALSE]
     ELSE a1

\* mutant of adoptFallback: streamingEnabled is left as it was
adoptFallbackUnflagged(a, body) ==
  LET text == Trim(body.raw)
  IN IF text # <<>>
     THEN [a EXCEPT !.text = text,
                    !.usage = IF body.hasUsage THEN body.usage ELSE @,
                    !.finishReason = IF body.finish # NullS THEN body.finish ELSE @]
     ELSE a

\* callGemini after callGeminiNonStreaming returned body
adoptFallback(a, body) ==
  LET text == Trim(body.raw)
  IN IF text # <<>>
     THEN [a EXCEPT !.text = text,
                    !.usage = IF body.hasUsage THEN body.usage ELSE @,
                    !.finishReason = IF body.finish # NullS THEN body.finish ELSE @,
                    !.streamingEnabled = FALSE]
     ELSE a

\* mutant of fallbackJson: the total latency is taken when the fallback has
\* answered
fallbackJsonTimed(r, p, ok, body, d) ==
  LET a == ad[r][p]
      a1 == [adoptFallback(a, body) EXCEPT !.totalMs = now + d - a.start]
  IN /\ NoMicrotask
     /\ a.pc = "fallbackJson"
     /\ now' = now + d
     /\ UNCHANGED << env, gw, pending, out >>
     /\ IF ok
        THEN settle(r, p, [a EXCEPT !.fallback = << body >>],
                    successOutcome(p, callResult(p, a1, gw[r].thinkingMode)))
        ELSE settle(r, p, a, errorOutcome(p, << "invalid json response body" >>))

\* callGeminiNonStreaming: `await response.json()` completes
fallbackJson(r, p, ok, body, d) ==
  LET a == ad[r][p]
      a1 == adoptFallback(a, body)
  IN /\ NoMicrotask
     /\ a.pc = "fallbackJson"
     /\ now' = now + d
     /\ UNCHANGED << env, gw, pending, out >>
     /\ IF ok
        THEN settle(r, p, [a EXCEPT !.fallback = << body >>],
                    successOutcome(p, callResult(p, a1, gw[r].thinkingMode)))
        ELSE settle(r, p, a, errorOutcome(p, << "invalid json response body" >>))

\* ------------------------------------------------------ browser client
\* The response body as the client reads it: bytes "{" "}" delimit a JSON
\* object, "g" "r" "d" are the members that make it a progress, a result or
\* a done message, "k1" "k2" are the two bytes of a character inside a
\* string of the message, "x" is text that is not JSON.

\* JSON.parse(trimmed): ok is FALSE when it throws
JSONparse(trimmed) ==
  LET notSpace(c) == c \notin WhiteSpace
      tokens == SelectSeq(trimmed, notSpace)
      inner == SubSeq(tokens, 2, Len(tokens) - 1)
      isString(c) == c \in {"k", "?"}
  IN IF /\ Len(tokens) >= 3
        /\ Head(tokens) = "{"
        /\ Last(tokens) = "}"
        /\ Head(inner) \in {"g", "r", "d"}
        /\ SelectSeq(Tail(inner), isString) = Tail(inner)
     THEN [ok |-> TRUE,
           type |-> IF Head(inner) = "g" THEN "progress"
                    ELSE IF Head(inner) = "r" THEN "result" ELSE "done",
           content |-> Tail(inner)]
     ELSE [ok |-> FALSE, type |-> NullS, content |-> <<>>]

\* processStreamLine(line, cards): the card updates after the line
processStreamLine(line, cards) ==
  LET trimmed == Trim(line)
      message == JSONparse(trimmed)
  IN IF trimmed = <<>> \/ ~message.ok THEN cards
     ELSE IF message.type = "result"
     THEN Append(cards, [update |-> "updateProviderCard", with |-> message.content])
     ELSE IF message.type = "progress"
     THEN Append(cards, [update |-> "updateProviderProgress", with |-> message.content])
     ELSE cards

\* lines.forEach((line) => processStreamLine(line, cards))
RECURSIVE processStreamLines(_, _)
processStreamLines(lines, cards) ==
  IF lines = <<>> THEN cards
  ELSE processStreamLines(Tail(lines), processStreamLine(Head(lines), cards))

\* the submit handler calls consumeStream(response.body, cards)
consumeStream(body) ==
  /\ cl.pc = "idle"
  /\ cl' = [NewClient EXCEPT !.pc = "reading", !.body = body, !.rest = body]
  /\ UNCHANGED << env, now, gw, ad, pending, raceQ, settled, out >>

\* mutant of consumeStreamRead: the text after the last newline of a read is
\* not kept for the next read
consumeStreamReadUnbuffered(n) ==
  LET value == SubSeq(cl.rest, 1, n)
      decoded == decodeStream(cl.pend, value)
      lines == SplitOn(decoded.chars, "N")
  IN /\ cl.pc = "reading"
     /\ n \in 1..Len(cl.rest)
     /\ cl' = [cl EXCEPT !.rest = SubSeq(cl.rest, n + 1, Len(cl.rest)),
                         !.pend = decoded.pend,
                         !.cut = @ \/ decoded.pend,
                         !.buffer = Last(lines),
                         !.lines = @ \o Front(lines),
                         !.cards = processStreamLines(Front(lines), @)]
     /\ UNCHANGED << env, now, gw, ad, pending, raceQ, settled, out >>

\* consumeStream: `await reader.read()` completes with the next n bytes
consumeStreamRead(n) ==
  LET value == SubSeq(cl.rest, 1, n)
      decoded == decodeStream(cl.pend, value)
      lines == SplitOn(cl.buffer \o decoded.chars, "N")
  IN /\ cl.pc = "reading"
     /\ n \in 1..Len(cl.rest)
     /\ cl' = [cl EXCEPT !.rest = SubSeq(cl.rest, n + 1, Len(cl.rest)),
                         !.pend = decoded.pend,
                         !.cut = @ \/ decoded.pend,
                         !.buffer = Last(lines),
                         !.lines = @ \o Front(lines),
                         !.cards = processStreamLines(Front(lines), @)]
     /\ UNCHANGED << env, now, gw, ad, pending, raceQ, settled, out >>

\* consumeStream: `await reader.read()` completes with done
consumeStreamDone ==
  LET tail == Trim(cl.buffer)
  IN /\ cl.pc = "reading"
     /\ cl.rest = <<>>
     /\ cl' = [cl EXCEPT !.pc = "done",
                         !.lines = IF tail # <<>> THEN Append(@, tail) ELSE @,
                         !.cards = IF tail # <<>> THEN processStreamLine(tail, @) ELSE @]
     /\ UNCHANGED << env, now, gw, ad, pending, raceQ, settled, out >>

\* ------------------------------------------------------- specifications
NextFor(R, Chunks, T, CB, keep) ==
  \/ \E r \in R, body \in Bodies, cb \in CB, d \in Steps(T, now) :
       PostChat(r, body, cb, d) /\ UNCHANGED cl
  \/ \E r \in R, d \in Steps(T, now) : GetModels(r, d) /\ UNCHANGED cl
  \/ \E r \in R : raceWinner(r) /\ UNCHANGED cl
  \/ \E r \in R, p \in Providers, res \in FetchResults, d \in Steps(T, now) :
       fetchResponse(r, p, res, d) /\ UNCHANGED cl
  \/ \E r \in R, p \in Providers, res \in {"text", "reject"}, d \in Steps(T, now) :
       errorText(r, p, res, d) /\ UNCHANGED cl
  \/ \E r \in R, p \in Providers, bytes \in Chunks, d1 \in Steps(T, now) :
       \E d2 \in {0} \cup Steps(T, now + d1) : readData(r, p, bytes, keep, d1, d2) /\ UNCHANGED cl
  \/ \E r \in R, p \in Providers, d \in Steps(T, now) : readDone(r, p, d) /\ UNCHANGED cl
  \/ \E r \in R, p \in Providers, d \in Steps(T, now) : readError(r, p, d) /\ UNCHANGED cl
  \/ \E r \in R, p \in Providers, res \in FetchResults, d \in Steps(T, now) :
       fallbackResponse(r, p, res, d) /\ UNCHANGED cl
  \/ \E r \in R, p \in Providers, ok \in BOOLEAN, body \in FallbackBodies, d \in Steps(T, now) :
       fallbackJson(r, p, ok, body, d) /\ UNCHANGED cl

\* chunks of the fan-out specification: whole frames
FanChunks == { << "D", "a", "N", "N" >> }

\* clock steps of the fan-out specification
FanTicks == {5}

Init == InitFor(Envs)

Next == NextFor({1}, FanChunks, FanTicks, {Writer}, FALSE)

Spec == Init /\ [][Next]_vars

\* The single-adapter specification: at most one provider is configured, so
\* one adapter runs against the upstream while the other two fail at launch.
\* Chunks: frames with and without visible text, a frame left unterminated,
\* a bare frame terminator, a heartbeat before a valid frame.
AdapterChunks ==
  { << "D", "a", "N", "N" >>, << "D", "e", "N", "N" >>, << "D", "m", "N", "N" >>,
    << "D", "b", "N", "N" >>, << "D", "u", "N", "N" >>, << "D", "a" >>,
    << "N", "N" >>, << "D", "h", "N", "N", "D", "k1", "k2", "N", "N" >> }

AdapterTicks == {0, 4}

AdapterEnvs ==
  {e \in Envs : Cardinality({p \in Providers : configError(p, e) = NullS}) <= 1}

InitAdapter == InitFor(AdapterEnvs)

NextAdapter == NextFor({1}, AdapterChunks, AdapterTicks, {Writer}, FALSE)

SpecAdapter == InitAdapter /\ [][NextAdapter]_vars

\* The decode specification: exactly one provider is configured and the
\* bytes its reads deliver are kept in received.  Chunks: whole frames, a
\* frame without its blank line, the second half of a blank line, a frame cut
\* inside a multi-byte character, a frame cut after its prefix, a CRLF frame
\* cut inside its terminator, a heartbeat, [DONE] and an event: line between
\* valid frames, a usage frame left unterminated, text with leading, repeated
\* and trailing whitespace.
DecodeChunks ==
  { << "D", "a", "N", "N" >>, << "D", "a", "N" >>, << "N" >>,
    << "D", "k1" >>, << "k2", "N", "N" >>, << "D" >>, << "b", "N", "N" >>,
    << "D", "a", "R", "N", "R" >>, << "D", "h", "N", "N" >>, << "D", "u", "N" >>,
    << "D", "a", "N", "N", "D", "h", "N", "N", "V", "N", "D", "b", "N", "N",
       "D", "z", "N", "N", "D", "k1", "k2", "N", "N" >>,
    << "D", "t", "N", "N" >> }

DecodeTicks == {4}

\* exactly one provider configured, the Azure variables set or unset together
DecodeEnvs ==
  {e \in Envs :
     /\ Cardinality({p \in Providers : configError(p, e) = NullS}) = 1
     /\ e["AZURE_FOUNDRY_ENDPOINT"] = e["AZURE_FOUNDRY_API_KEY"]
     /\ e["AZURE_FOUNDRY_API_KEY"] = e["AZURE_FOUNDRY_DEPLOYMENT"]}

InitDecode == InitFor(DecodeEnvs)

NextDecode == NextFor({1}, DecodeChunks, DecodeTicks, {Writer}, TRUE)

SpecDecode == InitDecode /\ [][NextDecode]_vars

\* The callback specification: runProviderRequest is given any callback of
\* Callbacks instead of the orchestrator's writer; exactly one provider is
\* configured and the bytes its reads deliver are kept.  Chunks: frames with
\* text, with whitespace text, with usage only, and a heartbeat.
CallbackChunks ==
  { << "D", "a", "N", "N" >>, << "D", "b", "N", "N" >>, << "D", "u", "N", "N" >>,
    << "D", "h", "N", "N" >> }

CallbackTicks == {4}

InitCallback == InitFor(DecodeEnvs)

NextCallback == NextFor({1}, CallbackChunks, CallbackTicks, Callbacks, TRUE)

SpecCallback == InitCallback /\ [][NextCallback]_vars

\* The two-request specification: both requests of ReqIds may be in flight
\* at once, in any interleaving of their steps; exactly one provider is
\* configured.  Chunks: one frame with text, so that streams differ by their
\* number of frames.
TwoChunks == { << "D", "a", "N", "N" >> }

TwoTicks == {4}

InitTwo == InitFor(DecodeEnvs)

NextTwo == NextFor(ReqIds, TwoChunks, TwoTicks, {Writer}, FALSE)

SpecTwo == InitTwo /\ [][NextTwo]_vars

\* The usage specification: exactly one provider is configured, the bytes
\* read are kept.  Chunks: frames with text, with a finish reason, with two
\* different usages and finish reasons, a terminal event without usage.
UsageChunks ==
  { << "D", "a", "N", "N" >>, << "D", "i", "N", "N" >>, << "D", "u", "N", "N" >>,
    << "D", "w", "N", "N" >>, << "D", "c", "N", "N" >> }

UsageTicks == {4}

InitUsage == InitFor(DecodeEnvs)

NextUsage == NextFor({1}, UsageChunks, UsageTicks, {Writer}, TRUE)

SpecUsage == InitUsage /\ [][NextUsage]_vars

\* the fan-out under the event loop's scheduling: a continuation that is due
\* runs (the microtask queue is drained before the next macrotask), while
\* nothing obliges an upstream to answer, to deliver or to close, so an
\* adapter may stay suspended at an await forever.  The clock stands still.
LiveTicks == {0}

\* configurations of the liveness specification: at most two providers
\* are configured, the others fail their configuration check at launch
LiveEnvs ==
  {e \in Envs : Cardinality({p \in Providers : configError(p, e) = NullS}) <= 2}

InitLive == InitFor(LiveEnvs)

NextLive == NextFor({1}, FanChunks, LiveTicks, {Writer}, FALSE)

SpecLive ==
  InitLive /\ [][NextLive]_vars /\ WF_vars(\E r \in {1} : raceWinner(r) /\ UNCHANGED cl)

\* The client specification: the client reads a response body of at most
\* MaxLines newline-terminated lines and a final line without newline,
\* delivered by reads of any lengths.
MaxLines == 2

\* lines of a response body: a progress message with a two-byte character, a
\* result message, a done message between white space, text that is not
\* JSON, a message cut short, an empty line
ClientLines ==
  { << "{", "g", "k1", "k2", "}" >>, << "{", "r", "}" >>,
    << "S", "{", "d", "}", "R" >>, << "x" >>, << "{", "g" >>, <<>> }

\* what follows the last newline of a response body
ClientTails == { <<>>, << "{", "r", "}" >>, << "S" >>, << "x", "}" >> }

RECURSIVE ClientBodies(_)
ClientBodies(n) ==
  IF n = 0 THEN ClientTails
  ELSE ClientTails \cup
       { line \o << "N" >> \o body : line \in ClientLines, body \in ClientBodies(n - 1) }

InitClient == InitFor({[k \in EnvKeys |-> FALSE]})

NextClient ==
  \/ \E body \in ClientBodies(MaxLines) : consumeStream(body)
  \/ \E n \in 1..Len(cl.rest) : consumeStreamRead(n)
  \/ consumeStreamDone

SpecClient == InitClient /\ [][NextClient]_vars


\* ------------------------------------------------------------ properties
\* positions in the response of request r
ResultAt(r, p) ==
  {i \in 1..Len(out[r]) : out[r][i].type = "result" /\ out[r][i].result.provider = p}

ProgressAt(r, p, stage) ==
  {i \in 1..Len(out[r]) :
     /\ out[r][i].type = "progress"
     /\ out[r][i].provider = p
     /\ out[r][i].stage = stage}

DoneAt(r) == {i \in 1..Len(out[r]) : out[r][i].type = "done"}

Stages == << "started", "connected", "first_token", "completed" >>

\* the progress events of provider p in the response of request r, in order
ProgressOf(r, p) ==
  LET mine(e) == e.type = "progress" /\ e.provider = p
  IN SelectSeq(out[r], mine)

\* the providers of the result events of request r, in the order written
RECURSIVE ResultProviders(_)
ResultProviders(events) ==
  IF events = <<>> THEN <<>>
  ELSE (IF Head(events).type = "result"
        THEN << Head(events).result.provider >> ELSE <<>>)
       \o ResultProviders(Tail(events))

IsPrefix(s, t) == Len(s) <= Len(t) /\ s = SubSeq(t, 1, Len(s))

Accepted(r) == gw[r].state \in {"streaming", "ended"}

AllSettled(r) == \A p \in Providers : ad[r][p].pc = "settled"

Misconfigured(p) == configError(p, env) # NullS

\* C1: an accepted request never gets two result events for one provider nor
\* two done events; once every adapter has settled and the orchestrator's
\* continuation has run, the response holds exactly one result event per
\* entry of MODEL_OPTIONS, then exactly one done event as its last line, and
\* the response is ended; done is never written before all results.
C1_OneResultEachThenDone ==
  \A r \in ReqIds :
    /\ \A p \in Providers : Cardinality(ResultAt(r, p)) <= 1
    /\ Cardinality(DoneAt(r)) <= 1
    /\ DoneAt(r) # {} <=> gw[r].state = "ended"
    /\ (Accepted(r) /\ AllSettled(r) /\ raceQ[r] = <<>>) => gw[r].state = "ended"
    /\ gw[r].state = "ended" =>
         /\ \A p \in Providers : Cardinality(ResultAt(r, p)) = 1
         /\ Len(ResultProviders(out[r])) = Len(MODEL_OPTIONS)
         /\ out[r][Len(out[r])].type = "done"

\* C1 witness: a request ended with results of failed and successful adapters
C1_Witness ==
  /\ gw[1].state = "ended"
  /\ \E p, q \in Providers :
       /\ ad[1][p].outcome.error
       /\ ~ad[1][q].outcome.error
       /\ ResultAt(1, p) # {} /\ ResultAt(1, q) # {}

\* C2: result events are written in the order the tasks settled, and when
\* the orchestrator's continuation has run every settled task's result is
\* written, whether or not other tasks are still pending.
C2_CompletionOrder ==
  \A r \in ReqIds :
    /\ IsPrefix(ResultProviders(out[r]), settled[r])
    /\ raceQ[r] = <<>> => ResultProviders(out[r]) = settled[r]

\* C2 witness: the adapter launched last reported first, the adapter launched
\* second reported next, the adapter launched first still running
C2_Witness ==
  /\ ResultProviders(out[1]) = << "azure_foundry", "gemini" >>
  /\ ~ad[1]["azure_foundry"].outcome.error
  /\ ad[1]["openai"].pc = "reading"


FailedStatus(st) == st \in {204, 500}

Rank(stage) == CHOOSE i \in 1..Len(Stages) : Stages[i] = stage

\* C3: a failed call settles its task with an error outcome of its own
\* provider (metrics null); every result line carries the outcome of the
\* provider it names; when the orchestrator's continuation has run, every
\* settled task has its result line, whatever failed or is still running;
\* and the step in which a running adapter fails changes no other adapter
\* and leaves the response open.
C3_FailureIsolated ==
  /\ [](\A r \in ReqIds : \A p \in Providers :
          /\ ad[r][p].pc = "settled" =>
               /\ ad[r][p].outcome.provider = p
               /\ ad[r][p].outcome.error <=> ad[r][p].outcome.metrics = NullMetrics
               /\ (Misconfigured(p) \/ FailedStatus(ad[r][p].status)) =>
                    ad[r][p].outcome.error
          /\ \A i \in ResultAt(r, p) : out[r][i].result = ad[r][p].outcome
          /\ (raceQ[r] = <<>> /\ ad[r][p].pc = "settled") => ResultAt(r, p) # {})
  /\ [][\A r \in ReqIds : \A p \in Providers :
          (/\ ad[r][p].pc \notin {"idle", "settled"}
           /\ ad'[r][p].pc = "settled"
           /\ ad'[r][p].outcome.error)
          => /\ gw'[r].state = "streaming"
             /\ \A q \in Providers \ {p} : ad'[r][q] = ad[r][q]]_vars

\* C3 witness: one adapter failed upstream and is reported, a second adapter
\* succeeded after it and is reported too, the third is still reading
C3_Witness ==
  /\ ResultProviders(out[1]) = << "openai", "azure_foundry" >>
  /\ ad[1]["openai"].status = 500
  /\ ~ad[1]["azure_foundry"].outcome.error
  /\ ad[1]["gemini"].pc = "reading"

\* C4 as stated: for a provider whose configuration is absent no request is
\* issued and the response holds no progress event of that provider at all.
C4_Original ==
  \A r \in ReqIds : \A p \in Providers :
    (Accepted(r) /\ Misconfigured(p)) =>
      /\ ad[r][p].requests = <<>>
      /\ ProgressOf(r, p) = <<>>

\* C4 amended: for a provider whose configuration is absent no request is
\* issued, its only progress event is the started event written at launch,
\* and its result is the error outcome that names the missing variable.
C4_Amended ==
  \A r \in ReqIds : \A p \in Providers :
    (Accepted(r) /\ Misconfigured(p)) =>
      /\ ad[r][p].requests = <<>>
      /\ ProgressOf(r, p) = << ProgressEvent(p, "started", 0) >>
      /\ raceQ[r] = <<>> => ResultAt(r, p) # {}
      /\ \A i \in ResultAt(r, p) :
           /\ out[r][i].result.error
           /\ out[r][i].result.response = << "Fehler: ", configError(p, env) >>

\* C4 witness: Azure lacks only its deployment and is reported as an error
\* while a configured adapter has reached connected
C4_Witness ==
  /\ env["AZURE_FOUNDRY_ENDPOINT"] /\ env["AZURE_FOUNDRY_API_KEY"]
  /\ ~env["AZURE_FOUNDRY_DEPLOYMENT"]
  /\ ResultAt(1, "azure_foundry") # {}
  /\ \E q \in Providers : ProgressAt(1, q, "connected") # {}

\* C5 as stated: after a non-success status or a response without body the
\* adapter's error message carries the status code and the body text, and
\* the provider has no progress event other than started.
C5_Original ==
  \A r \in ReqIds : \A p \in Providers :
    FailedStatus(ad[r][p].status) =>
      /\ ProgressOf(r, p) = << ProgressEvent(p, "started", 0) >>
      /\ ad[r][p].pc = "settled" =>
           /\ ad[r][p].outcome.error
           /\ ad[r][p].outcome.response =
                << "Fehler: " >> \o requestFailedMessage(p, ad[r][p].status)

\* C5 amended: after a non-success status or a response without body the
\* adapter fails, with a message that carries the status code and the body
\* text when the body text could be read and with the read failure's message
\* when it could not; the provider has no progress event other than started.
C5_Amended ==
  \A r \in ReqIds : \A p \in Providers :
    FailedStatus(ad[r][p].status) =>
      /\ ProgressOf(r, p) = << ProgressEvent(p, "started", 0) >>
      /\ ad[r][p].pc \in {"errorText", "settled"}
      /\ ad[r][p].pc = "settled" =>
           /\ ad[r][p].outcome.error
           /\ ad[r][p].outcome.response \in
                { << "Fehler: " >> \o requestFailedMessage(p, ad[r][p].status),
                  << "Fehler: ", "terminated" >> }

\* C5 witness: a 500 response reported with its status and body text
C5_Witness ==
  \E p \in Providers :
    /\ ad[1][p].status = 500
    /\ ResultAt(1, p) # {}
    /\ ad[1][p].outcome.response =
         << "Fehler: ", requestFailed(p), "500", " ", "upstream error body" >>

\* C6: the progress events of one provider appear in the order started,
\* connected, first_token, completed, each stage at most once, started first,
\* with non-decreasing elapsedMs.
C6_StageOrder ==
  \A r \in ReqIds : \A p \in Providers :
    LET ps == ProgressOf(r, p)
    IN /\ Accepted(r) => (ps # <<>> /\ ps[1].stage = "started" /\ ps[1].elapsedMs = 0)
       /\ \A i, j \in 1..Len(ps) :
            i < j => /\ Rank(ps[i].stage) < Rank(ps[j].stage)
                     /\ ps[i].elapsedMs <= ps[j].elapsedMs

\* C6 witness: one provider went through all four stages with growing
\* elapsedMs, and a provider launched after it completed before it connected
C6_Witness ==
  LET ps == ProgressOf(1, "openai")
  IN /\ Len(ps) = 4
     /\ ps[1].elapsedMs < ps[4].elapsedMs
     /\ \E i \in ProgressAt(1, "gemini", "completed") :
          \E j \in ProgressAt(1, "openai", "connected") : i < j

\* C7: in a successful outcome ttftMs <= firstTokenMs <= totalLatencyMs when
\* none of them is null.
C7_MilestonesMonotone ==
  \A r \in ReqIds : \A p \in Providers :
    (ad[r][p].pc = "settled" /\ ~ad[r][p].outcome.error) =>
      LET m == ad[r][p].outcome.metrics
      IN (m.ttftMs # Null /\ m.firstTokenMs # Null /\ m.totalLatencyMs # Null) =>
           /\ m.ttftMs <= m.firstTokenMs
           /\ m.firstTokenMs <= m.totalLatencyMs

\* C7 witness: a successful outcome with three different milestone values
C7_Witness ==
  \E p \in Providers :
    /\ ad[1][p].pc = "settled"
    /\ ~ad[1][p].outcome.error
    /\ ad[1][p].outcome.metrics.ttftMs # Null
    /\ ad[1][p].outcome.metrics.firstTokenMs # Null
    /\ ad[1][p].outcome.metrics.ttftMs < ad[1][p].outcome.metrics.firstTokenMs
    /\ ad[1][p].outcome.metrics.firstTokenMs < ad[1][p].outcome.metrics.totalLatencyMs

\* C8: an adapter that has read its body to the end has exactly one
\* completed progress event, an adapter that has not has none, and the
\* completed event precedes the provider's result line.
C8_CompletedOnce ==
  \A r \in ReqIds : \A p \in Providers :
    /\ Cardinality(ProgressAt(r, p, "completed")) =
         (IF ad[r][p].totalMs # Null THEN 1 ELSE 0)
    /\ \A i \in ProgressAt(r, p, "completed") : \A j \in ResultAt(r, p) : i < j

\* C8 witness: a stream that ended without any text: completed was
\* reported, first_token was not, and the result line follows
C8_Witness ==
  \E p \in Providers :
    /\ ad[1][p].totalMs # Null
    /\ ad[1][p].text = <<>>
    /\ ad[1][p].reads > 0
    /\ ProgressAt(1, p, "first_token") = {}
    /\ \E i \in ProgressAt(1, p, "completed") : \E j \in ResultAt(1, p) : i < j

\* C9: first_token is reported at most once per invocation, exactly when
\* firstTokenMs is recorded, and only when non-empty delta text has been
\* decoded and appended to the accumulated response.
C9_FirstTokenOnText ==
  \A r \in ReqIds : \A p \in Providers :
    /\ Cardinality(ProgressAt(r, p, "first_token")) =
         (IF ad[r][p].firstTokenMs # Null THEN 1 ELSE 0)
    /\ ProgressAt(r, p, "first_token") # {} => ad[r][p].text # <<>>

\* C10: connected is reported exactly once by an invocation that has read
\* data and not at all by one that has not, at the elapsed time recorded in
\* firstChunkMs, and before a first_token event of the same provider.
C10_ConnectedOnFirstData ==
  \A r \in ReqIds : \A p \in Providers :
    /\ Cardinality(ProgressAt(r, p, "connected")) = (IF ad[r][p].reads > 0 THEN 1 ELSE 0)
    /\ ad[r][p].reads > 0 <=> ad[r][p].firstChunkMs # Null
    /\ \A i \in ProgressAt(r, p, "connected") :
         /\ out[r][i].elapsedMs = toFixed2(ad[r][p].firstChunkMs)
         /\ \A j \in ProgressAt(r, p, "first_token") : i < j

\* C10 witness: data without visible text arrived and the stream ended:
\* connected was reported, first_token never
C10_Witness ==
  \E p \in Providers :
    /\ ad[1][p].reads > 0
    /\ ad[1][p].totalMs # Null
    /\ ad[1][p].text = <<>>
    /\ ProgressAt(1, p, "connected") # {}
    /\ ProgressAt(1, p, "first_token") = {}

\* --------------------------------------------- properties of the decode
\* The decode of adapter p applied to the reads `chunks` followed by the end
\* of the stream, from the state st = [pend, buffer, s] of decoder, buffer and
\* accumulators.
RECURSIVE decodeReads(_, _, _)
decodeReads(p, st, chunks) ==
  IF chunks = <<>> THEN flushRemaining(p, st.s, st.buffer, 0)
  ELSE LET dec == decodeStream(st.pend, Head(chunks))
           parts == SplitFrames(st.buffer \o dec.chars)
       IN decodeReads(p,
            [pend |-> dec.pend, buffer |-> Last(parts),
             s |-> handleParts(p, st.s, Front(parts), 0)],
            Tail(chunks))

\* text, usage and finish reason an invocation of p accumulates from chunks
Decoded(p, chunks) ==
  LET s == decodeReads(p, [pend |-> FALSE, buffer |-> <<>>,
                           s |-> decodeState(NewAdapter, <<>>)], chunks)
  IN [text |-> s.text, usage |-> s.usage, finishReason |-> s.finishReason]

\* text, usage and finish reason adapter p of request r has accumulated
Accumulated(r, p) ==
  [text |-> ad[r][p].text, usage |-> ad[r][p].usage,
   finishReason |-> ad[r][p].finishReason]

\* the read loop of adapter p of request r has seen the end of the stream
StreamEnded(r, p) == ad[r][p].totalMs # Null

\* the delta text of one line of a frame: that of its event when the line is
\* a data line whose payload is JSON, none otherwise
DeltaOfLine(line) ==
  LET payload == Trim(Tail(line))
  IN IF Head(line) = "D" /\ isJson(payload) /\ parseEvent(payload[1]).hasDelta
     THEN parseEvent(payload[1]).delta
     ELSE <<>>

RECURSIVE DeltasOfLines(_)
DeltasOfLines(lines) ==
  IF lines = <<>> THEN <<>>
  ELSE DeltaOfLine(Head(lines)) \o DeltasOfLines(Tail(lines))

\* the deltas of the valid frames among frames, concatenated in stream order
RECURSIVE ValidDeltas(_)
ValidDeltas(frames) ==
  IF frames = <<>> THEN <<>>
  ELSE DeltasOfLines(TrimNonEmpty(SplitLines(Head(frames))))
       \o ValidDeltas(Tail(frames))

\* the frames adapter p decodes from the characters of a whole stream: those
\* terminated by a blank line, and for Gemini the one left in the buffer
FramesOf(p, chars) ==
  IF p = "gemini" THEN SplitFrames(chars) ELSE Front(SplitFrames(chars))

\* a line that is a data line with a payload that is neither JSON nor empty
IsMalformed(line) ==
  Head(line) = "D" /\ Trim(Tail(line)) # <<>> /\ ~isJson(Trim(Tail(line)))

HasMalformed(chars) ==
  LET lines == TrimNonEmpty(SplitLines(chars))
  IN \E i \in 1..Len(lines) : IsMalformed(lines[i])

\* C11: when the stream has ended, every adapter has accumulated the text,
\* usage and finish reason it would have accumulated had the frame left in
\* its buffer been terminated by a blank line.
C11_FinalFrameFlushed ==
  \A r \in ReqIds : \A p \in Providers :
    StreamEnded(r, p) =>
      Accumulated(r, p) = Decoded(p, << ad[r][p].received \o << "N", "N" >> >>)

C13_ChunkingIndependent ==
  /\ gw[1].state = "idle" =>
       \A p \in Providers : \A bytes \in DecodeChunks : \A i \in 0..Len(bytes) :
         Decoded(p, << SubSeq(bytes, 1, i), SubSeq(bytes, i + 1, Len(bytes)) >>)
           = Decoded(p, << bytes >>)
  /\ \A r \in ReqIds : \A p \in Providers :
       StreamEnded(r, p) => Accumulated(r, p) = Decoded(p, << ad[r][p].received >>)

\* C13 witness: a stream delivered by two reads, the first ending inside a
\* multi-byte character, decoded to the text of the whole character
C13_Witness ==
  \E p \in Providers :
    /\ StreamEnded(1, p)
    /\ ad[1][p].reads = 2
    /\ ad[1][p].received = << "D", "k1", "k2", "N", "N" >>
    /\ ad[1][p].text = << "q" >>

\* ------------------------------------------- properties of the fallback
Succeeded(r, p) == ad[r][p].pc = "settled" /\ ~ad[r][p].outcome.error

\* the outcome of adapter p of request r was taken from the non-streaming
\* fallback: the streamed text was blank and the fallback's text was not
Adopted(r, p) ==
  /\ p = "gemini"
  /\ Trim(ad[r][p].text) = <<>>
  /\ ad[r][p].fallback # <<>>
  /\ Trim(ad[r][p].fallback[1].raw) # <<>>

FallbackRequests(r, p) ==
  LET isFallback(q) == q.kind = "fallback"
  IN SelectSeq(ad[r][p].requests, isFallback)

\* C14: a successful outcome has streamingEnabled false exactly when it is the
\* Gemini adapter's, the streamed text was empty or whitespace-only at the
\* end of the stream and the fallback request returned non-empty text; its
\* response then is the fallback's text, and otherwise the streamed text.
\* The fallback is requested at most once, and only by the Gemini adapter
\* after a stream without visible text.
C14_FallbackAdopted ==
  \A r \in ReqIds : \A p \in Providers :
    /\ Len(FallbackRequests(r, p)) <= 1
    /\ FallbackRequests(r, p) # <<>> =>
         (p = "gemini" /\ StreamEnded(r, p) /\ Trim(ad[r][p].text) = <<>>)
    /\ Succeeded(r, p) =>
         /\ ad[r][p].outcome.metrics.streamingEnabled = ~Adopted(r, p)
         /\ ad[r][p].outcome.response =
              IF Adopted(r, p) THEN Trim(ad[r][p].fallback[1].raw)
              ELSE responseText(ad[r][p].text)

\* C14 witness: the stream carried only whitespace text, the fallback
\* returned text, and the outcome carries the fallback's text, trimmed
C14_Witness ==
  /\ Succeeded(1, "gemini")
  /\ ad[1]["gemini"].text = << "S" >>
  /\ ad[1]["gemini"].outcome.response = << "p", "S", "q" >>
  /\ ~ad[1]["gemini"].outcome.metrics.streamingEnabled

\* C15: an outcome produced through the fallback (streamingEnabled false)
\* has ttftMs null and firstTokenMs null.
C15_FallbackUntimed ==
  \A r \in ReqIds : \A p \in Providers :
    (Succeeded(r, p) /\ ~ad[r][p].outcome.metrics.streamingEnabled) =>
      /\ ad[r][p].outcome.metrics.ttftMs = Null
      /\ ad[r][p].outcome.metrics.firstTokenMs = Null

\* ------------------------------------ properties of the thinking setting
\* the two-entry lookup of each provider, written out
ExpectedThinking(p, mode) ==
  IF p = "gemini" THEN (IF mode = "on" THEN "1024" ELSE "0")
  ELSE (IF mode = "on" THEN "medium" ELSE "none")

\* C16 as stated: every outcome of an adapter invocation, failed or
\* successful, carries the value resolved from thinkingMode in
\* metrics.thinkingBudget.
C16_Original ==
  \A r \in ReqIds : \A p \in Providers :
    ad[r][p].pc = "settled" =>
      /\ ad[r][p].outcome.metrics # NullMetrics
      /\ ad[r][p].outcome.metrics.thinkingBudget =
           ExpectedThinking(p, gw[r].thinkingMode)

\* C16 amended: every successful outcome, streamed or taken from the
\* fallback, with or without text, carries the value resolved from
\* thinkingMode in metrics.thinkingBudget; a failed outcome has metrics null
\* and carries no thinkingBudget.
C16_Amended ==
  \A r \in ReqIds : \A p \in Providers :
    ad[r][p].pc = "settled" =>
      IF ad[r][p].outcome.error
      THEN ad[r][p].outcome.metrics = NullMetrics
      ELSE /\ ad[r][p].outcome.metrics # NullMetrics
           /\ ad[r][p].outcome.metrics.thinkingBudget =
                ExpectedThinking(p, gw[r].thinkingMode)

\* C16 witness: with thinkingMode on, the Gemini adapter succeeded through
\* the fallback and reports 1024 while a failed adapter has metrics null
C16_Witness ==
  /\ gw[1].thinkingMode = "on"
  /\ Succeeded(1, "gemini")
  /\ ~ad[1]["gemini"].outcome.metrics.streamingEnabled
  /\ ad[1]["gemini"].outcome.metrics.thinkingBudget = "1024"
  /\ ad[1]["openai"].pc = "settled"
  /\ ad[1]["openai"].outcome.metrics = NullMetrics

\* C17: the value a successful outcome reports in metrics.thinkingBudget is
\* the reasoning setting present in the payload of the request the adapter
\* sent upstream.
C17_BudgetIsSent ==
  \A r \in ReqIds : \A p \in Providers :
    Succeeded(r, p) =>
      \A i \in 1..Len(ad[r][p].requests) :
        ad[r][p].requests[i].thinking = ad[r][p].outcome.metrics.thinkingBudget

\* --------------------------------------------- properties of the metrics
\* Number((tokens / (us / 1000000)).toFixed(2)), in hundredths
RoundedRate(tokens, us) == (tokens * 100000000 + us \div 2) \div us

Abs(x) == IF x < 0 THEN 0 - x ELSE x

\* C18: in a successful outcome tokensPerSecond is null when
\* billedOutputTokens is null or zero or the total latency is zero, and
\* otherwise is billedOutputTokens divided by the total latency in seconds,
\* rounded to 2 decimal places.  (The total latency is taken unrounded, as
\* the adapters do.)
C18_TokensPerSecond ==
  \A r \in ReqIds : \A p \in Providers :
    Succeeded(r, p) =>
      LET m == ad[r][p].outcome.metrics
      IN m.tokensPerSecond =
           IF m.billedOutputTokens = Null \/ m.billedOutputTokens = 0
              \/ ad[r][p].totalMs = 0
           THEN Null
           ELSE RoundedRate(m.billedOutputTokens, ad[r][p].totalMs)

NonWhiteSpaceRuns(text) ==
  Cardinality({i \in 1..Len(text) :
                 /\ text[i] \notin WhiteSpace
                 /\ (i = 1 \/ text[i - 1] \in WhiteSpace)})

\* the texts of at most n characters over a letter, space and line feed
Texts(n) == UNION {[1..k -> {"p", "S", "N"}] : k \in 0..n}

\* the final text of a successful outcome: the fallback's when adopted
FinalText(r, p) ==
  IF Adopted(r, p) THEN Trim(ad[r][p].fallback[1].raw) ELSE ad[r][p].text

\* the visible-token count the provider reported, Null when it reported none
ReportedVisible(r, p) ==
  LET usage == IF Adopted(r, p) /\ ad[r][p].fallback[1].hasUsage
               THEN ad[r][p].fallback[1].usage ELSE ad[r][p].usage
  IN IF p = "openai" THEN usage.text ELSE usage.output

\* C20 as stated: when the provider reported no visible-token count,
\* metrics.outputTokens is estimateVisibleTokens(final text), the number of
\* maximal runs of non-whitespace characters, 0 for blank text.
C20_Original ==
  \A r \in ReqIds : \A p \in Providers :
    (Succeeded(r, p) /\ ReportedVisible(r, p) = Null) =>
      ad[r][p].outcome.metrics.outputTokens = NonWhiteSpaceRuns(FinalText(r, p))

\* C20 amended: estimateVisibleTokens(text) is the number of maximal runs of
\* non-whitespace characters of text; when the provider reported no
\* visible-token count, metrics.outputTokens is that number for the final
\* text when it is positive, and null when the final text is empty or
\* whitespace-only.
C20_Amended ==
  /\ gw[1].state = "idle" =>
       \A t \in Texts(MaxText) : estimateVisibleTokens(t) = NonWhiteSpaceRuns(t)
  /\ \A r \in ReqIds : \A p \in Providers :
       /\ estimateVisibleTokens(ad[r][p].text) = NonWhiteSpaceRuns(ad[r][p].text)
       /\ (Succeeded(r, p) /\ ReportedVisible(r, p) = Null) =>
            ad[r][p].outcome.metrics.outputTokens =
              IF NonWhiteSpaceRuns(FinalText(r, p)) > 0
              THEN NonWhiteSpaceRuns(FinalText(r, p)) ELSE Null

\* C20 witness: text with leading, repeated and trailing whitespace around
\* two words was streamed without a reported count, and outputTokens is 2
C20_Witness ==
  \E p \in Providers :
    /\ Succeeded(1, p)
    /\ ad[1][p].text = << "S", "p", "S", "S", "q", "S" >>
    /\ ReportedVisible(1, p) = Null
    /\ ad[1][p].outcome.metrics.outputTokens = 2

\* the usage a successful outcome is computed from: the fallback's when the
\* fallback was adopted and carried one
FinalUsage(r, p) ==
  IF Adopted(r, p) /\ ad[r][p].fallback[1].hasUsage
  THEN ad[r][p].fallback[1].usage ELSE ad[r][p].usage

\* the total output token count the provider reported, Null when it
\* reported none: output_tokens, candidatesTokenCount plus the thoughts
\* reported with it, completion_tokens
ReportedTotal(r, p) ==
  LET usage == FinalUsage(r, p)
  IN IF usage.output = Null THEN Null
     ELSE IF p = "gemini"
     THEN usage.output + (IF usage.thoughts = Null THEN 0 ELSE usage.thoughts)
     ELSE usage.output

FailureMessages(r, p) ==
  { << configError(p, env) >>, << "fetch failed" >>, << "terminated" >>,
    requestFailedMessage(p, ad[r][p].status), << "invalid json response body" >> }

\* C22: a settled adapter's outcome has null metrics exactly when it is
\* flagged as an error, and then its response is "Fehler: " followed by the
\* message of the failure, whatever text had been accumulated; the result
\* line written for it carries that same outcome.
C22_MetricsNullIffError ==
  \A r \in ReqIds : \A p \in Providers :
    LET a == ad[r][p]
    IN /\ a.pc = "settled" =>
            /\ (a.outcome.metrics = NullMetrics) <=> a.outcome.error
            /\ a.outcome.error =>
                 \E message \in FailureMessages(r, p) :
                   a.outcome.response = << "Fehler: " >> \o message
            /\ ~a.outcome.error => a.outcome.response = responseText(FinalText(r, p))
       /\ \A i \in ResultAt(r, p) : out[r][i].result = a.outcome

\* C22 witness: a read failed after text had been accumulated, and the
\* written result is the error without metrics and without that text
C22_Witness ==
  \E p \in Providers : \E i \in ResultAt(1, p) :
    /\ ad[1][p].text # <<>>
    /\ out[1][i].result.error
    /\ out[1][i].result.metrics = NullMetrics
    /\ out[1][i].result.response = << "Fehler: ", "terminated" >>

\* ------------------------------------------- properties of the endpoint
\* the POST /api/chat handler has run for request r
Posted(r) == gw[r].state \in {"rejected", "streaming", "ended"}

\* the body was parsed and does not carry a non-empty string prompt and a
\* thinkingMode of "off" or "on"
Invalid(body) ==
  /\ body.error = NullS
  /\ \/ ~body.prompt.truthy
     \/ body.prompt.type # "string"
     \/ body.thinkingMode \notin {"off", "on"}

\* C23: a POST /api/chat whose parsed body has a missing, empty or
\* non-string prompt, or a thinkingMode other than "off" and "on", is
\* answered with status 400 and an error body, and for it no adapter is
\* launched, no request goes upstream and no line is written.
C23_InvalidRejected ==
  \A r \in ReqIds :
    (Posted(r) /\ Invalid(gw[r].request)) =>
      /\ gw[r].state = "rejected"
      /\ gw[r].status = 400
      /\ Len(gw[r].sent) = 1
      /\ \A p \in Providers : ad[r][p] = NewAdapter
      /\ pending[r] = <<>> /\ raceQ[r] = <<>> /\ settled[r] = <<>>
      /\ out[r] = <<>>

\* C23 witness: a string prompt with thinkingMode "high" was rejected with
\* status 400 although every provider is configured
C23_Witness ==
  /\ gw[1].state = "rejected"
  /\ gw[1].status = 400
  /\ gw[1].request.prompt = [type |-> "string", truthy |-> TRUE]
  /\ gw[1].request.thinkingMode = "high"
  /\ \A p \in Providers : configError(p, env) = NullS
  /\ out[1] = <<>>

\* C24: when the response to POST /api/chat has ended, its status is a
\* failure status if every adapter produced an error outcome, and a success
\* status if at least one adapter succeeded.
C24_OverallStatus ==
  \A r \in ReqIds :
    gw[r].state = "ended" =>
      ((\A p \in Providers : ad[r][p].outcome.error) <=> gw[r].status >= 400)

\* C25: the list GET /api/models answers with holds exactly the providers
\* whose configuration is complete, each with a label.
C25_ListsConfigured ==
  \A r \in ReqIds :
    gw[r].state = "listed" =>
      /\ gw[r].status = 200
      /\ {gw[r].sent[1][i].id : i \in 1..Len(gw[r].sent[1])}
           = {p \in Providers : configError(p, env) = NullS}
      /\ \A i \in 1..Len(gw[r].sent[1]) : gw[r].sent[1][i].label # <<>>

\* ------------------------------------ properties of the upstream requests
\* the requests of one invocation are well-formed: none without complete
\* configuration, else one streaming request, and after it at most one
\* fallback request, of the Gemini adapter, with the payload of the streaming
\* request, sent after a successful stream ended without visible text
RequestsOnce(r, p) ==
  LET requests == ad[r][p].requests
  IN /\ Len(requests) <= 2
     /\ (ad[r][p].pc # "idle" /\ Misconfigured(p)) => requests = <<>>
     /\ Len(requests) >= 1 => requests[1].kind = "stream"
     /\ Len(requests) = 2 =>
          /\ p = "gemini"
          /\ requests[2].kind = "fallback"
          /\ requests[2].thinking = requests[1].thinking
          /\ ~FailedStatus(ad[r][p].status)
          /\ StreamEnded(r, p)
          /\ Trim(ad[r][p].text) = <<>>

\* an invocation whose request failed (it has settled, or is reading the
\* body of a response with a non-success status) sends nothing in this step
NoRequestAfterFailure ==
  \A r \in ReqIds : \A p \in Providers :
    ad[r][p].pc \in {"settled", "errorText"} =>
      ad'[r][p].requests = ad[r][p].requests

\* C26: one invocation issues at most one streaming request and, the Gemini
\* adapter only, at most one fallback request with the same payload, and
\* that only after the stream ended with empty or whitespace-only text;
\* once a request has failed, or the invocation has settled, it issues no
\* further request.
C26_NoRetry ==
  /\ [](\A r \in ReqIds : \A p \in Providers : RequestsOnce(r, p))
  /\ [][NoRequestAfterFailure]_vars

\* C26 witness: the Gemini adapter's fallback request was rejected, and
\* the invocation has settled with that error after exactly the streaming
\* request and one fallback request
C26_Witness ==
  /\ ad[1]["gemini"].pc = "settled"
  /\ ad[1]["gemini"].outcome.error
  /\ Len(ad[1]["gemini"].requests) = 2
  /\ ad[1]["gemini"].requests[2].kind = "fallback"

\* ------------------------------------------------ properties of progress
\* C27: as long as an adapter of an accepted request has not settled, no
\* done line is written and the response is not ended, however long that
\* lasts; the result of every adapter that does settle is eventually
\* written all the same.
C27_HungAdapterBlocksDone ==
  /\ [](\A r \in ReqIds :
          (Accepted(r) /\ ~AllSettled(r)) =>
             (DoneAt(r) = {} /\ gw[r].state # "ended"))
  /\ \A p \in Providers :
       (ad[1][p].pc = "settled") ~> (ResultAt(1, p) # {})

\* C27 witness: one adapter is still waiting for its upstream, the results
\* of the two others are written, and the response is open without done
C27_Witness ==
  /\ ad[1]["openai"].pc = "reading"
  /\ raceQ[1] = <<>>
  /\ ResultAt(1, "gemini") # {} /\ ResultAt(1, "azure_foundry") # {}
  /\ ~ad[1]["gemini"].outcome.error
  /\ DoneAt(1) = {}
  /\ gw[1].state = "streaming"

\* C28: once every adapter of a request has settled, the done line is
\* eventually written and the response ended; and the done line is written
\* only after a result line of every entry of MODEL_OPTIONS.
C28_DoneEventually ==
  /\ AllSettled(1) ~> (gw[1].state = "ended" /\ DoneAt(1) # {})
  /\ [](\A r \in ReqIds : \A i \in DoneAt(r) : \A p \in Providers :
          \E j \in ResultAt(r, p) : j < i)

\* C28 witness: the three adapters settled in an order other than the launch
\* order, two of them by upstream answers, and the response has ended
C28_Witness ==
  /\ gw[1].state = "ended"
  /\ settled[1] = << "azure_foundry", "gemini", "openai" >>
  /\ ~ad[1]["gemini"].outcome.error
  /\ Len(out[1]) > 0 /\ out[1][Len(out[1])].type = "done"

\* ------------------------------------------- properties of the channel
\* e is one complete event: a progress event of a provider and a stage, a
\* result event with an outcome, or the done event
WholeEvent(e) ==
  /\ "type" \in DOMAIN e
  /\ \/ /\ e.type = "progress"
        /\ DOMAIN e = {"type", "provider", "model", "stage", "elapsedMs"}
        /\ e.provider \in Providers
        /\ \E i \in 1..Len(Stages) : e.stage = Stages[i]
     \/ /\ e.type = "result"
        /\ DOMAIN e = {"type", "result"}
        /\ e.result.provider \in Providers
        /\ e.result.error \in BOOLEAN
     \/ /\ e.type = "done"
        /\ DOMAIN e = {"type"}

\* C29: at every moment the response of a request is a sequence of whole
\* events, each a progress, a result or the done event, and a step only
\* appends whole events to it: what was written is never changed, and no
\* event is written inside or before another, whichever adapters and
\* continuations interleave.
C29_WholeLines ==
  /\ [](\A r \in ReqIds : \A i \in 1..Len(out[r]) : WholeEvent(out[r][i]))
  /\ [][\A r \in ReqIds : IsPrefix(out[r], out'[r])]_vars

\* C29 witness: the progress events of two running adapters are interleaved
\* in the response (openai, gemini, openai, gemini), and both results follow
C29_Witness ==
  \E i \in ProgressAt(1, "openai", "connected") :
    \E j \in ProgressAt(1, "gemini", "connected") :
      \E k \in ProgressAt(1, "openai", "completed") :
        \E l \in ProgressAt(1, "gemini", "completed") :
          /\ i < j /\ j < k /\ k < l
          /\ ResultAt(1, "openai") # {} /\ ResultAt(1, "gemini") # {}

\* ---------------------------------- properties of the progress callback
\* the locals adapter p of request r would hold at the end of its stream had
\* its callback been the writer: text, usage and finish reason decoded from
\* the bytes received, then the fallback body if one was read
WithWriter(r, p) ==
  LET a == ad[r][p]
      d == Decoded(p, << a.received >>)
      a1 == [a EXCEPT !.text = d.text, !.usage = d.usage,
                      !.finishReason = d.finishReason]
  IN IF a.fallback # <<>> THEN adoptFallback(a1, a.fallback[1]) ELSE a1

\* C30: the outcome of an invocation does not depend on its progress
\* callback: whether the callback is omitted, returns or throws, a request
\* that passed validation gets its adapters launched, a successful outcome
\* is the one computed from the bytes the upstream delivered, and an error
\* outcome carries the message of a configuration or upstream failure.
C30_CallbackIndependent ==
  \A r \in ReqIds :
    /\ (Posted(r) \/ gw[r].state = "failed") =>
         (Invalid(gw[r].request) \/ gw[r].request.error # NullS \/ Accepted(r))
    /\ \A p \in Providers :
         LET a == ad[r][p]
         IN a.pc = "settled" =>
              IF a.outcome.error
              THEN \E message \in FailureMessages(r, p) :
                     a.outcome.response = << "Fehler: " >> \o message
              ELSE a.outcome =
                     successOutcome(p, callResult(p, WithWriter(r, p), gw[r].thinkingMode))

\* ------------------------------------- properties of concurrent requests
\* everything the program holds for request r
StateOf(r) == << gw[r], ad[r], pending[r], raceQ[r], settled[r], out[r] >>

\* the progress events in the response of r are those of r's own adapter p:
\* one per milestone that adapter has reached, at the elapsed time it holds
OwnProgress(r, p) ==
  LET a == ad[r][p]
  IN /\ Cardinality(ProgressAt(r, p, "started")) = (IF Accepted(r) THEN 1 ELSE 0)
     /\ Cardinality(ProgressAt(r, p, "connected")) = (IF a.firstChunkMs # Null THEN 1 ELSE 0)
     /\ Cardinality(ProgressAt(r, p, "first_token")) = (IF a.firstTokenMs # Null THEN 1 ELSE 0)
     /\ Cardinality(ProgressAt(r, p, "completed")) = (IF a.totalMs # Null THEN 1 ELSE 0)
     /\ \A i \in ProgressAt(r, p, "connected") :
          out[r][i].elapsedMs = toFixed2(a.firstChunkMs)
     /\ \A i \in ProgressAt(r, p, "first_token") :
          out[r][i].elapsedMs = toFixed2(a.firstTokenMs)
     /\ \A i \in ProgressAt(r, p, "completed") :
          out[r][i].elapsedMs = toFixed2(a.totalMs)

\* a step changes what is held for one request at most
OneRequestPerStep ==
  \A r1, r2 \in ReqIds :
    (r1 # r2 /\ StateOf(r1)' # StateOf(r1)) => StateOf(r2)' = StateOf(r2)

\* C31: with two requests in flight, every progress and result event in a
\* response comes from an adapter launched for that request (its milestones,
\* its outcome, computed with that request's thinkingMode), a step touches
\* the state of one request only, and a request that has ended has one
\* result per provider and its own done event as last line.
C31_RequestsIsolated ==
  /\ [](\A r \in ReqIds :
          /\ \A p \in Providers :
               /\ OwnProgress(r, p)
               /\ Cardinality(ResultAt(r, p)) <= 1
               /\ \A i \in ResultAt(r, p) :
                    /\ ad[r][p].pc = "settled"
                    /\ out[r][i].result = ad[r][p].outcome
                    /\ ~ad[r][p].outcome.error =>
                         out[r][i].result.metrics.thinkingBudget =
                           resolvedThinking(p, gw[r].thinkingMode)
          /\ gw[r].state = "ended" =>
               /\ \A p \in Providers : Cardinality(ResultAt(r, p)) = 1
               /\ DoneAt(r) = {Len(out[r])}
          /\ ~Accepted(r) => out[r] = <<>>)
  /\ [][OneRequestPerStep]_vars

\* C31 witness: the second request, posted after the first with the other
\* thinking mode, has ended with its own text while the first one's adapter
\* is still reading a stream with different text
C31_Witness ==
  \E p \in Providers :
    /\ gw[1].state = "streaming" /\ gw[2].state = "ended"
    /\ gw[1].thinkingMode # gw[2].thinkingMode
    /\ ad[1][p].start < ad[2][p].start
    /\ ad[1][p].pc = "reading" /\ ad[1][p].text # <<>>
    /\ ~ad[2][p].outcome.error
    /\ ad[2][p].text # <<>> /\ ad[2][p].text # ad[1][p].text
    /\ DoneAt(2) # {} /\ DoneAt(1) = {}

\* ------------------------------- properties of usage and finish reason
\* the event of a line adapter p parses, in a one-element sequence; empty
\* for a line it skips
EventOfLine(p, line) ==
  LET payload == Trim(Tail(line))
  IN IF Head(line) = "D" /\ ~skipsPayload(p, payload) /\ isJson(payload)
     THEN << parseEvent(payload[1]) >> ELSE <<>>

RECURSIVE EventsOfLines(_, _)
EventsOfLines(p, lines) ==
  IF lines = <<>> THEN <<>>
  ELSE EventOfLine(p, Head(lines)) \o EventsOfLines(p, Tail(lines))

RECURSIVE EventsOfFrames(_, _)
EventsOfFrames(p, frames) ==
  IF frames = <<>> THEN <<>>
  ELSE EventsOfLines(p, TrimNonEmpty(SplitLines(Head(frames))))
       \o EventsOfFrames(p, Tail(frames))

\* the events adapter p of request r has parsed, in stream order
EventsOf(r, p) ==
  EventsOfFrames(p, FramesOf(p, decodeStream(FALSE, ad[r][p].received).chars))

\* an event adapter p takes a usage from
BearsUsage(p, ev) == ev.hasUsage /\ (p = "openai" => ev.kind = "response.completed")

\* the usage of the last usage-bearing event, NoUsage when there is none
RECURSIVE LastUsage(_, _)
LastUsage(p, events) ==
  IF events = <<>> THEN NoUsage
  ELSE IF BearsUsage(p, Last(events)) THEN Last(events).usage
  ELSE LastUsage(p, Front(events))

\* callOpenAI: the usage of the last response.completed event, with or
\* without usage
RECURSIVE LastCompletedUsage(_)
LastCompletedUsage(events) ==
  IF events = <<>> THEN NoUsage
  ELSE IF Last(events).kind = "response.completed" THEN Last(events).usage
  ELSE LastCompletedUsage(Front(events))

\* the finish reason of the last event bearing one, NullS when there is none
RECURSIVE LastFinish(_)
LastFinish(events) ==
  IF events = <<>> THEN NullS
  ELSE IF Last(events).finish # NullS THEN Last(events).finish
  ELSE LastFinish(Front(events))

\* the metrics of a successful streamed outcome report usage and finish
UsageReported(r, p, usage, finish) ==
  (Succeeded(r, p) /\ ~Adopted(r, p)) =>
     /\ ad[r][p].outcome.metrics.inputTokens = usage.input
     /\ ad[r][p].outcome.metrics.finishReason =
          IF finish = NullS /\ p # "gemini" THEN "completed" ELSE finish

\* C32 as stated: when the stream has ended, the usage and the finish reason
\* held, and reported in the metrics, are those of the last usage-bearing
\* and of the last finish-reason-bearing event in stream order, for each of
\* the three adapters.
C32_Original ==
  \A r \in ReqIds : \A p \in Providers :
    StreamEnded(r, p) =>
      /\ ad[r][p].usage = LastUsage(p, EventsOf(r, p))
      /\ ad[r][p].finishReason = LastFinish(EventsOf(r, p))
      /\ UsageReported(r, p, LastUsage(p, EventsOf(r, p)), LastFinish(EventsOf(r, p)))

\* C32 amended: the finish reason is that of the last finish-reason-bearing
\* event for each adapter; the usage is that of the last usage-bearing event
\* for the Gemini and Azure adapters, and for the OpenAI adapter that of the
\* last response.completed event, which is none when that event carries no
\* usage.
C32_Amended ==
  \A r \in ReqIds : \A p \in Providers :
    StreamEnded(r, p) =>
      LET usage == IF p = "openai" THEN LastCompletedUsage(EventsOf(r, p))
                   ELSE LastUsage(p, EventsOf(r, p))
      IN /\ ad[r][p].usage = usage
         /\ ad[r][p].finishReason = LastFinish(EventsOf(r, p))
         /\ UsageReported(r, p, usage, LastFinish(EventsOf(r, p)))

\* C32 witness: two usage-bearing events with different usages and finish
\* reasons were read, and the metrics report those of the second
C32_Witness ==
  \E p \in Providers :
    /\ Succeeded(1, p)
    /\ ad[1][p].received = << "D", "w", "N", "N", "D", "u", "N", "N" >>
    /\ ad[1][p].outcome.metrics.inputTokens = 5
    /\ ad[1][p].outcome.metrics.finishReason = "stop"

\* --------------------------------------- properties of the event order
\* the positions of the progress events of provider p in the response of r
ProgressPositions(r, p) ==
  {i \in 1..Len(out[r]) : out[r][i].type = "progress" /\ out[r][i].provider = p}

\* C33: in every response each provider's result line comes after all of
\* that provider's progress events, and the done line is the last line.
C33_ResultAfterProgress ==
  \A r \in ReqIds :
    /\ \A p \in Providers : \A i \in ResultAt(r, p) :
         \A j \in ProgressPositions(r, p) : j < i
    /\ \A i \in DoneAt(r) : i = Len(out[r])

\* C33 witness: the response has ended; a provider reported all four stages
\* before its result, while another provider's progress events were written
\* after that result
C33_Witness ==
  /\ gw[1].state = "ended"
  /\ \E p, q \in Providers :
       /\ Cardinality(ProgressPositions(1, p)) = 4
       /\ \E i \in ResultAt(1, p) : \E j \in ProgressPositions(1, q) : i < j

\* ------------------------------ properties of the milestone metrics
\* C34: in a successful outcome ttftMs is non-null exactly when a connected
\* event was reported for the invocation, and firstTokenMs is non-null
\* exactly when a first_token event was reported, also when the milestone
\* was reached at elapsed time 0.
C34_MilestoneReported ==
  \A r \in ReqIds : \A p \in Providers :
    Succeeded(r, p) =>
      /\ ad[r][p].outcome.metrics.ttftMs # Null <=> ProgressAt(r, p, "connected") # {}
      /\ ad[r][p].outcome.metrics.firstTokenMs # Null
           <=> ProgressAt(r, p, "first_token") # {}

\* ------------------------------- properties of the fallback's timing
\* C35: once the Gemini adapter has issued its fallback request, its
\* completed event has been reported, at the total latency fixed at the end
\* of the stream, and is its last progress event whatever the fallback does;
\* the total latency, the latencies derived from it and tokensPerSecond of
\* the outcome are those of the stream alone.
C35_FallbackNotTimed ==
  \A r \in ReqIds : \A p \in Providers :
    FallbackRequests(r, p) # <<>> =>
      LET a == ad[r][p]
          ps == ProgressOf(r, p)
      IN /\ a.totalMs # Null
         /\ ps # <<>>
         /\ ps[Len(ps)].stage = "completed"
         /\ ps[Len(ps)].elapsedMs = toFixed2(a.totalMs)
         /\ Cardinality(ProgressAt(r, p, "completed")) = 1
         /\ Succeeded(r, p) =>
              LET m == a.outcome.metrics
              IN /\ m.totalLatencyMs = ps[Len(ps)].elapsedMs
                 /\ m.postTtftLatencyMs =
                      IF truthy(a.firstChunkMs)
                      THEN toFixed2(a.totalMs - a.firstChunkMs) ELSE Null
                 /\ m.generationMs =
                      IF truthy(a.firstTokenMs)
                      THEN toFixed2(a.totalMs - a.firstTokenMs) ELSE Null
                 /\ m.tokensPerSecond = tokensPerSecond(m.outputTokens, a.totalMs)

\* C35 witness: the fallback answered with text later than the end of the
\* stream, and the outcome's total latency is that of the stream
C35_Witness ==
  /\ Succeeded(1, "gemini")
  /\ Adopted(1, "gemini")
  /\ now > ad[1]["gemini"].start + ad[1]["gemini"].totalMs
  /\ ad[1]["gemini"].outcome.metrics.totalLatencyMs = toFixed2(ad[1]["gemini"].totalMs)
  /\ ad[1]["gemini"].outcome.metrics.tokensPerSecond # Null

\* ----------------------------- properties of a fallback without result
\* the messages of the exceptions the fallback request can raise
FallbackExceptions == { << "fetch failed" >>, << "invalid json response body" >> }

\* C36: when the Gemini adapter has settled after issuing its fallback
\* request, its outcome is an error only with the message of an exception the
\* fallback request raised; an outcome without adopted fallback text (the
\* fallback answered with a non-success status or with empty text) is a
\* non-error outcome with streamingEnabled true whose usage and finish reason
\* are those of the stream.
C36_FallbackDiscarded ==
  \A r \in ReqIds : \A p \in Providers :
    (ad[r][p].pc = "settled" /\ FallbackRequests(r, p) # <<>>) =>
      LET a == ad[r][p]
          usage == LastUsage(p, EventsOf(r, p))
      IN /\ a.outcome.error =>
              \E message \in FallbackExceptions :
                a.outcome.response = << "Fehler: " >> \o message
         /\ (Succeeded(r, p) /\ ~Adopted(r, p)) =>
              /\ a.outcome.metrics.streamingEnabled
              /\ a.outcome.metrics.inputTokens = usage.input
              /\ a.outcome.metrics.outputTokens = usage.output
              /\ a.outcome.metrics.finishReason = LastFinish(EventsOf(r, p))
              /\ a.outcome.response = responseText(<<>>)

\* C36 witness: the fallback answered with whitespace-only text, a usage and
\* a finish reason, and the outcome is a streamed non-error outcome with the
\* usage and finish reason of the stream, which had reported a usage
C36_Witness ==
  /\ Succeeded(1, "gemini")
  /\ ad[1]["gemini"].fallback # <<>>
  /\ Trim(ad[1]["gemini"].fallback[1].raw) = <<>>
  /\ ad[1]["gemini"].fallback[1].finish = "MAX_TOKENS"
  /\ ad[1]["gemini"].received = << "D", "u", "N" >>
  /\ ad[1]["gemini"].outcome.metrics.streamingEnabled
  /\ ad[1]["gemini"].outcome.metrics.finishReason = "stop"
  /\ ad[1]["gemini"].outcome.metrics.outputTokens = 7

\* ------------------------------------ properties of the response text
\* the response of a successful outcome is the trimmed final text, and the
\* placeholder when that is empty
ResponseNonEmpty(r, p) ==
  LET a == ad[r][p]
  IN /\ a.outcome.response # <<>>
     /\ a.outcome.response \notin { << " " >>, << "S" >>, << "N" >> }
     /\ a.outcome.response =
          IF Trim(FinalText(r, p)) = <<>> THEN << "[No text returned]" >>
          ELSE Trim(FinalText(r, p))

\* C37 as stated: every non-error outcome carries a non-empty response, the
\* trimmed final text, and when that is empty the placeholder
\* "[No text returned]" with a null visible output token count.
C37_Original ==
  \A r \in ReqIds : \A p \in Providers :
    Succeeded(r, p) =>
      /\ ResponseNonEmpty(r, p)
      /\ Trim(FinalText(r, p)) = <<>> => ad[r][p].outcome.metrics.outputTokens = Null

\* C37 amended: every non-error outcome carries a non-empty response, the
\* trimmed final text, and when that is empty the placeholder
\* "[No text returned]"; its visible output token count is then the count
\* the provider reported, 0 included, and null rather than 0 only when the
\* provider reported none.
C37_Amended ==
  \A r \in ReqIds : \A p \in Providers :
    Succeeded(r, p) =>
      /\ ResponseNonEmpty(r, p)
      /\ Trim(FinalText(r, p)) = <<>> =>
           /\ ad[r][p].outcome.metrics.outputTokens = ReportedVisible(r, p)
           /\ ReportedVisible(r, p) = Null =>
                ad[r][p].outcome.metrics.outputTokens # 0

\* C37 witness: a stream without text whose last event reported a visible
\* count of 0 ended with the placeholder and the count 0
C37_Witness ==
  \E p \in Providers :
    /\ Succeeded(1, p)
    /\ ad[1][p].text = <<>>
    /\ ad[1][p].reads > 0
    /\ ReportedVisible(1, p) = 0
    /\ ad[1][p].outcome.response = << "[No text returned]" >>
    /\ ad[1][p].outcome.metrics.outputTokens = 0

\* a stream without text and without reported count ended with the
\* placeholder and a null visible count
C37_NullCount ==
  \E p \in Providers :
    /\ Succeeded(1, p)
    /\ ad[1][p].reads > 0
    /\ ReportedVisible(1, p) = Null
    /\ ad[1][p].outcome.response = << "[No text returned]" >>
    /\ ad[1][p].outcome.metrics.outputTokens = Null

\* ------------------------------------------- properties of the client
\* the text of the response body the client has read so far
ClientText(body) == decodeStream(FALSE, body).chars

\* the calls of processStreamLine a text asks for: one for each
\* newline-terminated line, in order
TerminatedLines(text) == Front(SplitOn(text, "N"))

\* the messages of the lines that are valid JSON, in order
RECURSIVE MessagesOf(_)
MessagesOf(lines) ==
  IF lines = <<>> THEN <<>>
  ELSE LET message == JSONparse(Trim(Head(lines)))
       IN (IF Trim(Head(lines)) # <<>> /\ message.ok /\ message.type # "done"
           THEN << [update |-> IF message.type = "result" THEN "updateProviderCard"
                               ELSE "updateProviderProgress",
                    with |-> message.content] >>
           ELSE <<>>) \o MessagesOf(Tail(lines))

\* the text of the bytes of the response body the client has read
ClientRead == ClientText(SubSeq(cl.body, 1, Len(cl.body) - Len(cl.rest)))

\* C38: whatever the lengths of the reads, the client has called
\* processStreamLine once for each newline-terminated line of the text read
\* so far, in stream order; when the stream has ended it has also processed
\* the final line without newline unless that is blank; and the cards have
\* been updated for every processed line that is a JSON result or progress
\* message, in order, the lines that are not JSON being skipped.
C38_EveryLineOnce ==
  LET tail == Trim(Last(SplitOn(ClientRead, "N")))
  IN /\ cl.pc = "reading" => cl.lines = TerminatedLines(ClientRead)
     /\ cl.pc = "done" =>
          /\ cl.rest = <<>>
          /\ cl.lines = TerminatedLines(ClientRead) \o
                        (IF tail # <<>> THEN << tail >> ELSE <<>>)
     /\ cl.cards = MessagesOf(cl.lines)

\* C38 witness: a body with a line that is not JSON between two messages and
\* a final message without newline was read to its end by reads that cut a
\* line inside its two-byte character, and the two messages updated the
\* cards
C38_Witness ==
  /\ cl.pc = "done"
  /\ cl.cut
  /\ cl.lines = << << "{", "g", "k", "}" >>, << "x" >>, << "{", "r", "}" >> >>
  /\ cl.cards = << [update |-> "updateProviderProgress", with |-> << "k" >>],
                   [update |-> "updateProviderCard", with |-> <<>>] >>

====
